---- MODULE Spec2Model ----
(***************************************************************************)
(* A model of tools/ddl_optimizer: the DDL parser (parser.py), the six     *)
(* formatters (formatters.py) and the DDLOptimizer facade (optimizer.py).  *)
(*                                                                         *)
(* Strings are sequences of one-character strings.  A code point outside   *)
(* ASCII is written as one element "U+XXXX".  The alphabet of the inputs   *)
(* is ASCII; the regular expressions of the parser are translated by hand  *)
(* into position functions over such sequences (a position is 1-based, 0   *)
(* stands for "no match").                                                 *)
(***************************************************************************)
EXTENDS Integers, Sequences, FiniteSets, TLC

\* ------------------------------------------------------------------------
\* Characters
\* ------------------------------------------------------------------------

LowerCase == <<"a","b","c","d","e","f","g","h","i","j","k","l","m",
               "n","o","p","q","r","s","t","u","v","w","x","y","z">>

UpperCase == <<"A","B","C","D","E","F","G","H","I","J","K","L","M",
               "N","O","P","Q","R","S","T","U","V","W","X","Y","Z">>

Digits == <<"0","1","2","3","4","5","6","7","8","9">>

\* \w of the re module, on the ASCII alphabet
WordChars == {LowerCase[i] : i \in DOMAIN LowerCase} \cup {UpperCase[i] : i \in DOMAIN UpperCase}
             \cup {Digits[i] : i \in DOMAIN Digits} \cup {"_"}

\* \s of the re module, and what str.strip() removes
Space == {" ", "\n", "\t", "\r"}

Quotes == {"'", "\""}

\* the back-tick, which a string of this notation cannot hold
Backtick == "U+0060"

UpperMap == [c \in {LowerCase[i] : i \in DOMAIN LowerCase} |->
               UpperCase[CHOOSE i \in DOMAIN LowerCase : LowerCase[i] = c]]

\* str.upper() of one character
upper_char(c) == IF c \in DOMAIN UpperMap THEN UpperMap[c] ELSE c

\* str.upper()
upper(s) == [i \in 1..Len(s) |-> upper_char(s[i])]

\* ------------------------------------------------------------------------
\* String helpers (str methods and the pieces of the regular expressions)
\* ------------------------------------------------------------------------

Min(S) == CHOOSE x \in S : \A y \in S : x <= y

\* a local name of the source: F of the value v that the name is bound to
With(v, F(_)) == F(v)

Max(S) == CHOOSE x \in S : \A y \in S : y <= x

\* the elements of a finite set of positions (integers from 1), ascending
Sorted(S) ==
    IF S = {} THEN <<>> ELSE SelectSeq([i \in 1..Max(S) |-> i], LAMBDA i : i \in S)

\* s[i:] starts with lit
lit_at(s, i, lit) ==
    /\ i >= 1
    /\ i + Len(lit) - 1 <= Len(s)
    /\ \A k \in 1..Len(lit) : s[i + k - 1] = lit[k]

\* s.upper()[i:] starts with lit (lit in upper case); a literal under re.IGNORECASE
lit_ci(s, i, lit) ==
    /\ i >= 1
    /\ i + Len(lit) - 1 <= Len(s)
    /\ \A k \in 1..Len(lit) : upper_char(s[i + k - 1]) = lit[k]

\* lit in s
contains(s, lit) == \E p \in 1..(Len(s) + 1) : lit_at(s, p, lit)

\* lit in s.upper()
contains_ci(s, lit) == contains(upper(s), lit)

\* the end (exclusive) of the longest run of characters of Cls starting at i: [Cls]*
run_end(s, i, Cls) ==
    CHOOSE j \in i..(Len(s) + 1) :
        /\ \A k \in i..(j - 1) : s[k] \in Cls
        /\ (j = Len(s) + 1 \/ s[j] \notin Cls)

\* the end (exclusive) of the longest run of characters not in Cls starting at i: [^Cls]*
run_end_not(s, i, Cls) ==
    CHOOSE j \in i..(Len(s) + 1) :
        /\ \A k \in i..(j - 1) : s[k] \notin Cls
        /\ (j = Len(s) + 1 \/ s[j] \in Cls)

\* \s* at i: the position after it
skip_ws(s, i) == run_end(s, i, Space)

\* \s+ at i: the position after it, 0 when no whitespace is at i
need_ws(s, i) == IF i >= 1 /\ i <= Len(s) /\ s[i] \in Space THEN skip_ws(s, i) ELSE 0

\* KEYWORD\s+ at i (case-insensitive): the position after it, or 0
kw_ws(s, i, lit) == IF i >= 1 /\ lit_ci(s, i, lit) THEN need_ws(s, i + Len(lit)) ELSE 0

\* `?(\w+)`? at i: [from, to) of group 1 and the position after the match; ok = FALSE when
\* no word character is there.  \w+ is greedy and what follows it is never a word
\* character, so backtracking cannot change the match.
name_at(s, i) ==
    With(IF i >= 1 /\ i <= Len(s) /\ s[i] = Backtick THEN i + 1 ELSE i, LAMBDA b :
    With(IF b >= 1 /\ b <= Len(s) + 1 THEN run_end(s, b, WordChars) ELSE b, LAMBDA e :
        [ok |-> i >= 1 /\ e > b, from |-> b, to |-> e,
         next |-> IF e >= 1 /\ e <= Len(s) /\ s[e] = Backtick THEN e + 1 ELSE e]))

\* \s*\(([^)]+)\) at i: [from, to) of the group and the position after the match
paren_list_at(s, i) ==
    With(IF i >= 1 /\ i <= Len(s) + 1 THEN skip_ws(s, i) ELSE 0, LAMBDA a :
    With(IF a >= 1 /\ a <= Len(s) /\ s[a] = "(" THEN run_end_not(s, a + 1, {")"}) ELSE 0, LAMBDA f :
        [ok |-> f > a + 1 /\ f <= Len(s), from |-> a + 1, to |-> f, next |-> f + 1]))

\* str.strip()
strip(s) ==
    With({i \in 1..Len(s) : s[i] \notin Space}, LAMBDA keep :
        IF keep = {} THEN <<>> ELSE SubSeq(s, Min(keep), Max(keep)))

\* str.strip(chars)
strip_chars(s, Cls) ==
    With({i \in 1..Len(s) : s[i] \notin Cls}, LAMBDA keep :
        IF keep = {} THEN <<>> ELSE SubSeq(s, Min(keep), Max(keep)))

\* str.split(','): never empty, the pieces between the commas
split_comma(s) ==
    With(Sorted({i \in 1..Len(s) : s[i] = ","}), LAMBDA cuts :
        [k \in 1..(Len(cuts) + 1) |->
            SubSeq(s, IF k = 1 THEN 1 ELSE cuts[k - 1] + 1,
                      IF k = Len(cuts) + 1 THEN Len(s) ELSE cuts[k] - 1)])

\* [c.strip().strip('`') for c in group.split(',')]
column_list(s) ==
    With(split_comma(s), LAMBDA parts :
        [k \in 1..Len(parts) |-> strip_chars(strip(parts[k]), {Backtick})])

\* ------------------------------------------------------------------------
\* DDLParser: comments and statement extraction
\* ------------------------------------------------------------------------

\* re.sub(r'--.*?$', '', text, flags=re.MULTILINE): a character goes when a "--" starts
\* at or before it on its line
in_line_comment(s, i) ==
    \E j \in 1..i :
        /\ lit_at(s, j, <<"-", "-">>)
        /\ \A k \in j..i : s[k] # "\n"

remove_line_comments(s) ==
    With(Sorted({i \in 1..Len(s) : ~in_line_comment(s, i)}), LAMBDA keep :
        [k \in 1..Len(keep) |-> s[keep[k]]])

\* re.sub(r'/\*.*?\*/', '', text, flags=re.DOTALL): the leftmost "/*" that has a "*/"
\* after it goes with everything up to the first such "*/"; the scan goes on behind it
RECURSIVE remove_block_comments(_)
remove_block_comments(s) ==
    With({o \in 1..Len(s) : /\ lit_at(s, o, <<"/", "*">>)
                            /\ \E c \in (o + 2)..Len(s) : lit_at(s, c, <<"*", "/">>)}, LAMBDA opens :
        IF opens = {} THEN s
        ELSE With(Min(opens), LAMBDA o :
             With(Min({c \in (o + 2)..Len(s) : lit_at(s, c, <<"*", "/">>)}), LAMBDA c :
                 SubSeq(s, 1, o - 1) \o remove_block_comments(SubSeq(s, c + 2, Len(s))))))

remove_comments(text) == remove_block_comments(remove_line_comments(text))

\* CREATE\s+TABLE\s+ at p: the position after it, or 0
create_head(s, p) ==
    kw_ws(s, kw_ws(s, p, <<"C","R","E","A","T","E">>), <<"T","A","B","L","E">>)

\* IF\s+NOT\s+EXISTS\s+ at h: the position after it, or 0
if_not_exists(s, h) ==
    kw_ws(s, kw_ws(s, kw_ws(s, h, <<"I","F">>), <<"N","O","T">>), <<"E","X","I","S","T","S">>)

\* `?(\w+)`?\s*\( at c
name_paren_at(s, c) ==
    With(name_at(s, c), LAMBDA nm :
        nm.ok /\ With(skip_ws(s, nm.next), LAMBDA a : a <= Len(s) /\ s[a] = "("))

\* the pattern of _extract_create_tables matches at p:
\* CREATE\s+TABLE\s+(?:IF\s+NOT\s+EXISTS\s+)?`?(\w+)`?\s*\(   (re.IGNORECASE)
create_table_at(s, p) ==
    With(create_head(s, p), LAMBDA h :
        /\ h # 0
        /\ \/ name_paren_at(s, if_not_exists(s, h))
           \/ name_paren_at(s, h))

\* a variant of _extract_create_tables that ends a statement at the first ";" after
\* the match
extract_create_tables_first_semicolon(text) ==
    With(Sorted({p \in 1..Len(text) : create_table_at(text, p)}), LAMBDA matches :
        LET stop(i) == IF i + 1 <= Len(matches) THEN matches[i + 1] - 1 ELSE Len(text)
            semis(i) == {k \in matches[i]..stop(i) : text[k] = ";"}
        IN  With(Sorted({i \in 1..Len(matches) : semis(i) # {}}), LAMBDA found :
                [k \in 1..Len(found) |->
                    SubSeq(text, matches[found[k]], Min(semis(found[k])))]))

\* _extract_create_tables: one statement per match that has a ";" before the next match.
\* Two matches never overlap (inside a match "CREATE" can only end the table name, and
\* "(" follows), so re.finditer finds every position the pattern matches at.
extract_create_tables(text) ==
    With(Sorted({p \in 1..Len(text) : create_table_at(text, p)}), LAMBDA matches :
        LET stop(i) == IF i + 1 <= Len(matches) THEN matches[i + 1] - 1 ELSE Len(text)
            semis(i) == {k \in matches[i]..stop(i) : text[k] = ";"}
        IN  With(Sorted({i \in 1..Len(matches) : semis(i) # {}}), LAMBDA found :
                [k \in 1..Len(found) |->
                    SubSeq(text, matches[found[k]], Max(semis(found[k])))]))

\* ------------------------------------------------------------------------
\* DDLParser: one CREATE TABLE statement
\* An Optional value is <<>> (None) or <<v>>.
\* ------------------------------------------------------------------------

\* re.search: the leftmost position of s that P holds at, 0 when there is none
search(s, P(_)) ==
    With({p \in 1..Len(s) : P(p)}, LAMBDA hits : IF hits = {} THEN 0 ELSE Min(hits))

\* the name pattern of _parse_create_table at p (re.IGNORECASE):
\* CREATE\s+TABLE\s+(?:IF\s+NOT\s+EXISTS\s+)?`?(\w+)`?
\* group 1; ok = FALSE when the pattern does not match at p.  The optional group is
\* tried first and given up when no name follows it.
table_name_at(s, p) ==
    With(create_head(s, p), LAMBDA h :
    With(name_at(s, if_not_exists(s, h)), LAMBDA viaIf :
        IF viaIf.ok THEN viaIf ELSE name_at(s, h)))

\* \s*=?\s*(\w+) at q: group 1
option_value_at(s, q) ==
    With(skip_ws(s, q), LAMBDA a :
    With(skip_ws(s, IF a <= Len(s) /\ s[a] = "=" THEN a + 1 ELSE a), LAMBDA c :
    With(run_end(s, c, WordChars), LAMBDA e :
        [ok |-> e > c, from |-> c, to |-> e])))

\* ['"]([^'"]*)['"] at c: group 1
quoted_at(s, c) ==
    With(IF c >= 1 /\ c <= Len(s) /\ s[c] \in Quotes THEN run_end_not(s, c + 1, Quotes) ELSE 0,
         LAMBDA e : [ok |-> e # 0 /\ e <= Len(s), from |-> c + 1, to |-> e])

\* ENGINE\s*=?\s*(\w+) at p
engine_at(s, p) ==
    IF lit_ci(s, p, <<"E","N","G","I","N","E">>) THEN option_value_at(s, p + 6) ELSE [ok |-> FALSE]

\* (?:CHARSET|CHARACTER\s+SET)\s*=?\s*(\w+) at p
charset_at(s, p) ==
    IF lit_ci(s, p, <<"C","H","A","R","S","E","T">>) THEN option_value_at(s, p + 7)
    ELSE With(kw_ws(s, p, <<"C","H","A","R","A","C","T","E","R">>), LAMBDA q :
             IF q # 0 /\ lit_ci(s, q, <<"S","E","T">>) THEN option_value_at(s, q + 3)
             ELSE [ok |-> FALSE])

\* COMMENT\s*=?\s*['"]([^'"]*)['"] at p
table_comment_at(s, p) ==
    IF lit_ci(s, p, <<"C","O","M","M","E","N","T">>)
    THEN With(skip_ws(s, p + 7), LAMBDA a :
             quoted_at(s, skip_ws(s, IF a <= Len(s) /\ s[a] = "=" THEN a + 1 ELSE a)))
    ELSE [ok |-> FALSE]

\* m.group(1) if m else None, for the leftmost match of a pattern
group_or_none(s, At(_, _)) ==
    With(search(s, LAMBDA p : At(s, p).ok), LAMBDA p0 :
        IF p0 = 0 THEN <<>>
        ELSE With(At(s, p0), LAMBDA m : <<SubSeq(s, m.from, m.to - 1)>>))

\* the depth _split_definitions has counted when it reaches body[i]
paren_depth(body, i) ==
    Cardinality({k \in 1..(i - 1) : body[k] = "("}) - Cardinality({k \in 1..(i - 1) : body[k] = ")"})

\* a variant of split_definitions that ends a clause at every comma
split_definitions_every_comma(body) ==
    With(Sorted({i \in 1..Len(body) : body[i] = ","}), LAMBDA cuts :
        LET lo(k) == IF k = 1 THEN 1 ELSE cuts[k - 1] + 1
        IN  With(SubSeq(body, lo(Len(cuts) + 1), Len(body)), LAMBDA rest :
            With([k \in 1..Len(cuts) |-> SubSeq(body, lo(k), cuts[k] - 1)], LAMBDA closed :
                IF rest = <<>> THEN closed ELSE Append(closed, rest))))

\* _split_definitions: a comma ends a clause when the depth counted so far is 0; what
\* is left after the last such comma is a clause unless it is empty
split_definitions(body) ==
    With(Sorted({i \in 1..Len(body) : body[i] = "," /\ paren_depth(body, i) = 0}), LAMBDA cuts :
        LET lo(k) == IF k = 1 THEN 1 ELSE cuts[k - 1] + 1
        IN  With(SubSeq(body, lo(Len(cuts) + 1), Len(body)), LAMBDA rest :
            With([k \in 1..Len(cuts) |-> SubSeq(body, lo(k), cuts[k] - 1)], LAMBDA closed :
                IF rest = <<>> THEN closed ELSE Append(closed, rest))))

\* DEFAULT\s+([^\s,]+) at p
default_at(s, p) ==
    With(kw_ws(s, p, <<"D","E","F","A","U","L","T">>), LAMBDA a :
    With(IF a = 0 THEN 0 ELSE run_end_not(s, a, Space \cup {","}), LAMBDA e :
        [ok |-> a # 0 /\ e > a, from |-> a, to |-> e]))

\* COMMENT\s+['"]([^'"]*)['"] at p
column_comment_at(s, p) ==
    quoted_at(s, kw_ws(s, p, <<"C","O","M","M","E","N","T">>))

MakeColumn(name, data_type, length, nullable, default, auto_increment, comment) ==
    [name |-> name, data_type |-> data_type, length |-> length, nullable |-> nullable,
     default |-> default, auto_increment |-> auto_increment, comment |-> comment]

\* _parse_column: None (<<>>) or a Column
parse_column(line) ==
    With(name_at(line, 1), LAMBDA nm :                                   \* `?(\w+)`?\s+
    With(IF nm.ok THEN need_ws(line, nm.next) ELSE 0, LAMBDA r :
        IF r = 0 THEN <<>>
        ELSE With(SubSeq(line, r, Len(line)), LAMBDA rest :
             With(run_end(rest, 1, WordChars), LAMBDA te :               \* (\w+)(?:\(([^)]+)\))?
                 IF te = 1 THEN <<>>
                 ELSE With(IF te <= Len(rest) /\ rest[te] = "(" THEN paren_list_at(rest, te)
                           ELSE [ok |-> FALSE], LAMBDA lenm :
                      With(group_or_none(rest, default_at), LAMBDA dflt :
                          <<MakeColumn(
                              SubSeq(line, nm.from, nm.to - 1),
                              SubSeq(rest, 1, te - 1),
                              IF lenm.ok THEN <<SubSeq(rest, lenm.from, lenm.to - 1)>> ELSE <<>>,
                              ~contains_ci(rest, <<"N","O","T"," ","N","U","L","L">>),
                              IF dflt = <<>> THEN <<>> ELSE <<strip_chars(dflt[1], Quotes)>>,
                              contains_ci(rest, <<"A","U","T","O","_","I","N","C","R","E","M","E","N","T">>),
                              group_or_none(rest, column_comment_at))>>))))))

MakeIndex(name, columns, index_type) ==
    [name |-> name, columns |-> columns, index_type |-> index_type]

\* PRIMARY KEY\s*\(([^)]+)\) at p (re.IGNORECASE): the column list
primary_key_at(s, p) ==
    IF lit_ci(s, p, <<"P","R","I","M","A","R","Y"," ","K","E","Y">>) THEN paren_list_at(s, p + 11) ELSE [ok |-> FALSE]

\* a variant of parse_primary_key that appends no Index
parse_primary_key_no_index(line, table) ==
    With(search(line, LAMBDA p : primary_key_at(line, p).ok), LAMBDA p0 :
        IF p0 = 0 THEN table
        ELSE With(primary_key_at(line, p0), LAMBDA m :
                 [table EXCEPT !.primary_keys = column_list(SubSeq(line, m.from, m.to - 1))]))

\* _parse_primary_key
parse_primary_key(line, table) ==
    With(search(line, LAMBDA p : primary_key_at(line, p).ok), LAMBDA p0 :
        IF p0 = 0 THEN table
        ELSE With(primary_key_at(line, p0), LAMBDA m :
             With(column_list(SubSeq(line, m.from, m.to - 1)), LAMBDA cols :
                 [table EXCEPT !.primary_keys = cols,
                               !.indexes = Append(table.indexes, MakeIndex(<<"P","R","I","M","A","R","Y">>, cols, "PRIMARY"))])))

\* (?:KEY|INDEX)\s+`?(\w+)`?\s*\(([^)]+)\) at p: the name and the column list
key_name_list_at(s, p) ==
    With(IF lit_ci(s, p, <<"K","E","Y">>) THEN need_ws(s, p + 3)
         ELSE IF lit_ci(s, p, <<"I","N","D","E","X">>) THEN need_ws(s, p + 5) ELSE 0, LAMBDA q :
    With(name_at(s, q), LAMBDA nm :
    With(IF nm.ok THEN paren_list_at(s, nm.next) ELSE [ok |-> FALSE], LAMBDA lst :
        IF lst.ok THEN [ok |-> TRUE, name |-> SubSeq(s, nm.from, nm.to - 1),
                        columns |-> column_list(SubSeq(s, lst.from, lst.to - 1))]
        ELSE [ok |-> FALSE])))

\* UNIQUE\s+(?:KEY|INDEX)\s+`?(\w+)`?\s*\(([^)]+)\) at p
unique_key_at(s, p) ==
    With(kw_ws(s, p, <<"U","N","I","Q","U","E">>), LAMBDA q :
        IF q = 0 THEN [ok |-> FALSE] ELSE key_name_list_at(s, q))

\* _parse_unique_key
parse_unique_key(line, table) ==
    With(search(line, LAMBDA p : unique_key_at(line, p).ok), LAMBDA p0 :
        IF p0 = 0 THEN table
        ELSE With(unique_key_at(line, p0), LAMBDA m :
                 [table EXCEPT !.indexes = Append(table.indexes, MakeIndex(m.name, m.columns, "UNIQUE"))]))

\* _parse_index
parse_index(line, table) ==
    With(search(line, LAMBDA p : key_name_list_at(line, p).ok), LAMBDA p0 :
        IF p0 = 0 THEN table
        ELSE With(key_name_list_at(line, p0), LAMBDA m :
                 [table EXCEPT !.indexes = Append(table.indexes, MakeIndex(m.name, m.columns, "INDEX"))]))

MakeForeignKey(name, columns, ref_table, ref_columns) ==
    [name |-> name, columns |-> columns, ref_table |-> ref_table, ref_columns |-> ref_columns]

\* FOREIGN KEY\s*\(([^)]+)\)\s*REFERENCES\s+`?(\w+)`?\s*\(([^)]+)\) at q
references_at(s, q) ==
    With(IF lit_ci(s, q, <<"F","O","R","E","I","G","N"," ","K","E","Y">>)
         THEN paren_list_at(s, q + 11) ELSE [ok |-> FALSE], LAMBDA cols :
    With(IF cols.ok THEN kw_ws(s, skip_ws(s, cols.next), <<"R","E","F","E","R","E","N","C","E","S">>)
         ELSE 0, LAMBDA r :
    With(name_at(s, r), LAMBDA nm :
    With(IF nm.ok THEN paren_list_at(s, nm.next) ELSE [ok |-> FALSE], LAMBDA refs :
        IF refs.ok THEN [ok |-> TRUE,
                         columns |-> column_list(SubSeq(s, cols.from, cols.to - 1)),
                         ref_table |-> SubSeq(s, nm.from, nm.to - 1),
                         ref_columns |-> column_list(SubSeq(s, refs.from, refs.to - 1))]
        ELSE [ok |-> FALSE]))))

\* (?:CONSTRAINT\s+`?(\w+)`?\s+)?FOREIGN KEY ... at p: group 1 is <<>> when the
\* optional group did not take part
foreign_key_at(s, p) ==
    With(name_at(s, kw_ws(s, p, <<"C","O","N","S","T","R","A","I","N","T">>)), LAMBDA nm :
    With(references_at(s, IF nm.ok THEN need_ws(s, nm.next) ELSE 0), LAMBDA named :
        IF named.ok THEN [ok |-> TRUE, name |-> <<SubSeq(s, nm.from, nm.to - 1)>>, fk |-> named]
        ELSE With(references_at(s, p), LAMBDA plain :
                 IF plain.ok THEN [ok |-> TRUE, name |-> <<>>, fk |-> plain]
                 ELSE [ok |-> FALSE])))

\* _parse_foreign_key
parse_foreign_key(line, table) ==
    With(search(line, LAMBDA p : foreign_key_at(line, p).ok), LAMBDA p0 :
        IF p0 = 0 THEN table
        ELSE With(foreign_key_at(line, p0), LAMBDA m :
             With(IF m.name # <<>> THEN m.name[1] ELSE <<"f","k","_">> \o table.name, LAMBDA fk_name :
                 [table EXCEPT !.foreign_keys =
                      Append(table.foreign_keys,
                             MakeForeignKey(fk_name, m.fk.columns, m.fk.ref_table, m.fk.ref_columns))])))

\* a variant of parse_definition that tests for a foreign key before it tests for an index
parse_definition_fk_first(raw, table) ==
    With(strip(raw), LAMBDA line :
        IF line = <<>> THEN table
        ELSE IF lit_ci(line, 1, <<"P","R","I","M","A","R","Y"," ","K","E","Y">>) THEN parse_primary_key(line, table)
        ELSE IF lit_ci(line, 1, <<"C","O","N","S","T","R","A","I","N","T">>) \/ contains_ci(line, <<"F","O","R","E","I","G","N"," ","K","E","Y">>)
             THEN parse_foreign_key(line, table)
        ELSE IF lit_ci(line, 1, <<"U","N","I","Q","U","E"," ","K","E","Y">>) \/ lit_ci(line, 1, <<"U","N","I","Q","U","E"," ","I","N","D","E","X">>)
             THEN parse_unique_key(line, table)
        ELSE IF lit_ci(line, 1, <<"K","E","Y">>) \/ lit_ci(line, 1, <<"I","N","D","E","X">>) THEN parse_index(line, table)
        ELSE With(parse_column(line), LAMBDA column :
                 IF column = <<>> THEN table
                 ELSE [table EXCEPT !.columns = Append(table.columns, column[1])]))

\* the body of the loop of _parse_table_body: one clause, classified by the first test
\* that holds
parse_definition(raw, table) ==
    With(strip(raw), LAMBDA line :
        IF line = <<>> THEN table
        ELSE IF lit_ci(line, 1, <<"P","R","I","M","A","R","Y"," ","K","E","Y">>) THEN parse_primary_key(line, table)
        ELSE IF lit_ci(line, 1, <<"U","N","I","Q","U","E"," ","K","E","Y">>) \/ lit_ci(line, 1, <<"U","N","I","Q","U","E"," ","I","N","D","E","X">>)
             THEN parse_unique_key(line, table)
        ELSE IF lit_ci(line, 1, <<"K","E","Y">>) \/ lit_ci(line, 1, <<"I","N","D","E","X">>) THEN parse_index(line, table)
        ELSE IF lit_ci(line, 1, <<"C","O","N","S","T","R","A","I","N","T">>) \/ contains_ci(line, <<"F","O","R","E","I","G","N"," ","K","E","Y">>)
             THEN parse_foreign_key(line, table)
        ELSE With(parse_column(line), LAMBDA column :
                 IF column = <<>> THEN table
                 ELSE [table EXCEPT !.columns = Append(table.columns, column[1])]))

RECURSIVE parse_definitions(_, _, _)
parse_definitions(lines, k, table) ==
    IF k > Len(lines) THEN table
    ELSE parse_definitions(lines, k + 1, parse_definition(lines[k], table))

\* _parse_table_body
parse_table_body(body, table) == parse_definitions(split_definitions(body), 1, table)

MakeTable(name, engine, charset, comment) ==
    [name |-> name, columns |-> <<>>, primary_keys |-> <<>>, indexes |-> <<>>,
     foreign_keys |-> <<>>, comment |-> comment, engine |-> engine, charset |-> charset]

\* \((.*)\) with re.DOTALL: from the first "(" to the last ")" behind it
body_match(create_sql) ==
    With({i \in 1..Len(create_sql) : create_sql[i] = "("}, LAMBDA opens :
        IF opens = {} THEN <<>>
        ELSE With(Min(opens), LAMBDA first :
             With({i \in 1..Len(create_sql) : create_sql[i] = ")" /\ i > first}, LAMBDA closes :
                 IF closes = {} THEN <<>>
                 ELSE <<SubSeq(create_sql, first + 1, Max(closes) - 1)>>)))

\* _parse_create_table: None (<<>>) or a Table
parse_create_table(create_sql) ==
    With(search(create_sql, LAMBDA p : table_name_at(create_sql, p).ok), LAMBDA p0 :
        IF p0 = 0 THEN <<>>
        ELSE With(table_name_at(create_sql, p0), LAMBDA nm :
             With(body_match(create_sql), LAMBDA body :
                 IF body = <<>> THEN <<>>
                 ELSE <<parse_table_body(body[1],
                            MakeTable(SubSeq(create_sql, nm.from, nm.to - 1),
                                      group_or_none(create_sql, engine_at),
                                      group_or_none(create_sql, charset_at),
                                      group_or_none(create_sql, table_comment_at)))>>)))

\* the Tables one call of parse builds, in statement order: the loop of parse without
\* the store into self.tables
parsed_tables(ddl_text) ==
    With(extract_create_tables(remove_comments(ddl_text)), LAMBDA create_tables :
    With([k \in 1..Len(create_tables) |-> parse_create_table(create_tables[k])], LAMBDA made :
    With(Sorted({k \in 1..Len(made) : made[k] # <<>>}), LAMBDA kept :
        [j \in 1..Len(kept) |-> made[kept[j]][1]])))

\* ------------------------------------------------------------------------
\* Formatters.  A `tables` argument is what tables.items() yields: a sequence of
\* [key, table] in the order of the dict.
\* ------------------------------------------------------------------------

\* ''.join(parts); also the concatenation of a list of lists
RECURSIVE flatten(_)
flatten(parts) == IF parts = <<>> THEN <<>> ELSE Head(parts) \o flatten(Tail(parts))

\* sep.join(parts)
join(sep, parts) ==
    flatten([k \in 1..(2 * Len(parts) - 1) |-> IF k % 2 = 1 THEN parts[(k + 1) \div 2] ELSE sep])

\* str(n) for n >= 0
RECURSIVE int_str(_)
int_str(n) == IF n < 10 THEN <<Digits[n + 1]>> ELSE int_str(n \div 10) \o <<Digits[(n % 10) + 1]>>

\* x in list
in_list(x, list) == \E i \in DOMAIN list : list[i] = x

\* the truth value of an Optional[str]: None and '' are false
truthy(opt) == opt # <<>> /\ opt[1] # <<>>

\* opt or ""
or_empty(opt) == IF truthy(opt) THEN opt[1] ELSE <<>>

\* _format_type (the same in the Compact, JSON, Markdown and Layered formatters)
format_type_of(col) ==
    IF truthy(col.length) THEN col.data_type \o <<"(">> \o col.length[1] \o <<")">>
    ELSE col.data_type

\* the loop "for idx in table.indexes: if idx.index_type == t and col.name in idx.columns"
\* finds an index
in_index_of_type(col, table, t) ==
    \E i \in DOMAIN table.indexes :
        table.indexes[i].index_type = t /\ in_list(col.name, table.indexes[i].columns)

\* the PK, UK and IDX markers, appended by three independent tests
key_markers(col, table) ==
    (IF in_list(col.name, table.primary_keys) THEN <<<<"P","K">>>> ELSE <<>>)
    \o (IF in_index_of_type(col, table, "UNIQUE") THEN <<<<"U","K">>>> ELSE <<>>)
    \o (IF in_index_of_type(col, table, "INDEX") THEN <<<<"I","D","X">>>> ELSE <<>>)

\* the list `constraints` of CompactFormatter._get_column_constraints
Compact_constraints(col, table) ==
    LET keys == key_markers(col, table)
        ai == IF col.auto_increment THEN <<<<"A","I">>>> ELSE <<>>
        nn == IF ~col.nullable /\ ~in_list(<<"P","K">>, keys \o ai) THEN <<<<"N","N">>>> ELSE <<>>
    IN  keys \o ai \o nn

\* "  FK: cols -> ref(ref_cols)"
Compact_fk_line(fk) ==
    <<" "," ","F","K",":"," ">> \o join(<<","," ">>, fk.columns) \o <<" ","U+2192"," ">> \o fk.ref_table
    \o <<"(">> \o join(<<","," ">>, fk.ref_columns) \o <<")">>

Compact_column_line(col, table) ==
    LET constraints == join(<<" ">>, Compact_constraints(col, table))
    IN  <<" "," ">> \o col.name \o <<":"," ">> \o format_type_of(col)
        \o (IF constraints # <<>> THEN <<" ">> \o constraints ELSE <<>>)
        \o (IF truthy(col.comment) THEN <<" ">> \o col.comment[1] ELSE <<>>)

\* the lines CompactFormatter.format appends for one table
Compact_table_lines(table_name, table) ==
    <<table_name \o <<" ","{">> \o (IF truthy(table.comment) THEN <<" ","-","-"," ">> \o table.comment[1] ELSE <<>>)>>
    \o [i \in DOMAIN table.columns |-> Compact_column_line(table.columns[i], table)]
    \o (IF table.foreign_keys # <<>>
        THEN <<<<>>>> \o [i \in DOMAIN table.foreign_keys |-> Compact_fk_line(table.foreign_keys[i])]
        ELSE <<>>)
    \o <<<<"}">>, <<>>>>

\* CompactFormatter.format
CompactFormatter_format(tables) ==
    join(<<"\n">>, flatten([k \in DOMAIN tables |-> Compact_table_lines(tables[k].key, tables[k].table)]))

\* JSONFormatter._get_column_constraints: no NN marker
JSON_constraints(col, table) ==
    key_markers(col, table) \o (IF col.auto_increment THEN <<<<"A","I">>>> ELSE <<>>)

\* a variant of dict_set that leaves the value of a key already there as it is
dict_set_keep(d, key, value) ==
    IF \E i \in DOMAIN d : d[i].key = key
    THEN d
    ELSE Append(d, [key |-> key, value |-> value])

\* d[key] = value on a dict held as a sequence of [key, value]: a key already there
\* keeps its place
dict_set(d, key, value) ==
    IF \E i \in DOMAIN d : d[i].key = key
    THEN [i \in DOMAIN d |-> IF d[i].key = key THEN [key |-> key, value |-> value] ELSE d[i]]
    ELSE Append(d, [key |-> key, value |-> value])

\* the dict `columns` of JSONFormatter.format
RECURSIVE JSON_columns(_, _)
JSON_columns(table, n) ==
    IF n = 0 THEN <<>>
    ELSE LET col == table.columns[n]
         IN  dict_set(JSON_columns(table, n - 1), col.name,
                      join(<<"/">>, JSON_constraints(col, table)) \o <<"/">> \o format_type_of(col)
                      \o <<"/">> \o or_empty(col.comment))

\* the list `relations`: one entry per local column of each foreign key
JSON_relations(table) ==
    flatten([i \in DOMAIN table.foreign_keys |->
               [j \in DOMAIN table.foreign_keys[i].columns |->
                  table.foreign_keys[i].ref_table \o <<".">> \o table.foreign_keys[i].ref_columns[1]]])

\* a variant of JSON_references_from without the test of ref_table
JSON_references_any(other, table_name) ==
    [k \in DOMAIN other.table.foreign_keys |->
        other.key \o <<".">> \o other.table.foreign_keys[k].columns[1]]

\* the entries one other table adds to referenced_by of table_name
JSON_references_from(other, table_name) ==
    LET fks == other.table.foreign_keys
        hits == Sorted({i \in DOMAIN fks : fks[i].ref_table = table_name})
    IN  [k \in DOMAIN hits |-> other.key \o <<".">> \o fks[hits[k]].columns[1]]

\* the list `referenced_by` of JSONFormatter.format
JSON_referenced_by(tables, table_name) ==
    flatten([k \in DOMAIN tables |->
               IF tables[k].key = table_name THEN <<>>
               ELSE JSON_references_from(tables[k], table_name)])

\* the dict `schema` of JSONFormatter.format, before json.dumps
JSON_schema(tables) ==
    [k \in DOMAIN tables |->
       [key |-> tables[k].key,
        comment |-> or_empty(tables[k].table.comment),
        columns |-> JSON_columns(tables[k].table, Len(tables[k].table.columns)),
        relations |-> JSON_relations(tables[k].table),
        referenced_by |-> JSON_referenced_by(tables, tables[k].key)]]

\* json.dumps of one character of a str (ensure_ascii=False)
json_char(c) ==
    IF c = "\"" THEN <<"\\", "\"">>
    ELSE IF c = "\\" THEN <<"\\", "\\">>
    ELSE IF c = "\n" THEN <<"\\", "n">>
    ELSE IF c = "\t" THEN <<"\\", "t">>
    ELSE IF c = "\r" THEN <<"\\", "r">>
    ELSE <<c>>

\* json.dumps of a str
json_str(s) == <<"\"">> \o flatten([i \in DOMAIN s |-> json_char(s[i])]) \o <<"\"">>

\* json.dumps of a list of str at the nesting level of `pad`
json_list(items, pad) ==
    IF items = <<>> THEN <<"[","]">>
    ELSE <<"[","\n">> \o join(<<",","\n">>, [i \in DOMAIN items |-> pad \o <<" "," ">> \o json_str(items[i])])
         \o <<"\n">> \o pad \o <<"]">>

\* json.dumps of a dict of str -> rendered value at the nesting level of `pad`
json_dict(items, pad) ==
    IF items = <<>> THEN <<"{","}">>
    ELSE <<"{","\n">> \o join(<<",","\n">>, [i \in DOMAIN items |->
                                  pad \o <<" "," ">> \o json_str(items[i].key) \o <<":"," ">> \o items[i].value])
         \o <<"\n">> \o pad \o <<"}">>

\* json.dumps of one entry of `schema`
json_entry(e) ==
    json_dict(<<[key |-> <<"c","o","m","m","e","n","t">>, value |-> json_str(e.comment)],
                [key |-> <<"c","o","l","u","m","n","s">>,
                 value |-> json_dict([i \in DOMAIN e.columns |->
                                        [key |-> e.columns[i].key, value |-> json_str(e.columns[i].value)]],
                                     <<" "," "," "," ">>)],
                [key |-> <<"r","e","l","a","t","i","o","n","s">>, value |-> json_list(e.relations, <<" "," "," "," ">>)],
                [key |-> <<"r","e","f","e","r","e","n","c","e","d","_","b","y">>, value |-> json_list(e.referenced_by, <<" "," "," "," ">>)]>>,
              <<" "," ">>)

\* JSONFormatter.format: json.dumps(schema, ensure_ascii=False, indent=2)
JSONFormatter_format(tables) ==
    LET schema == JSON_schema(tables)
    IN  json_dict([k \in DOMAIN schema |-> [key |-> schema[k].key, value |-> json_entry(schema[k])]],
                  <<>>)

\* MarkdownFormatter._get_column_constraints
Markdown_constraints(col, table) ==
    key_markers(col, table)
    \o (IF col.auto_increment THEN <<<<"A","I">>>> ELSE <<>>)
    \o (IF ~col.nullable /\ ~in_list(col.name, table.primary_keys) THEN <<<<"N","N">>>> ELSE <<>>)

\* one data row; the table name only in the row of the first column
Markdown_row(table_name, table, i) ==
    LET col == table.columns[i]
    IN  <<"|"," ">> \o (IF i = 1 THEN table_name ELSE <<>>) \o <<" ","|"," ">> \o col.name \o <<" ","|"," ">>
        \o format_type_of(col) \o <<" ","|"," ">> \o join(<<","," ">>, Markdown_constraints(col, table))
        \o <<" ","|"," ">> \o or_empty(col.comment) \o <<" ","|">>

Markdown_relation(table_name, fk) ==
    <<"-"," ">> \o <<Backtick>> \o table_name \o <<".">> \o join(<<","," ">>, fk.columns) \o <<Backtick>> \o <<" ","U+2192"," ">>
    \o <<Backtick>> \o fk.ref_table \o <<".">> \o join(<<","," ">>, fk.ref_columns) \o <<Backtick>>

\* MarkdownFormatter.format
MarkdownFormatter_format(tables) ==
    join(<<"\n">>,
         <<<<"|"," ","U+8868","U+540D"," ","|"," ","U+5B57","U+6BB5"," ","|"," ","U+7C7B","U+578B"," ","|"," ","U+7EA6","U+675F"," ","|"," ","U+8BF4","U+660E"," ","|">>, <<"|","-","-","-","-","-","-","|","-","-","-","-","-","-","|","-","-","-","-","-","-","|","-","-","-","-","-","-","|","-","-","-","-","-","-","|">>>>
         \o flatten([k \in DOMAIN tables |->
                       [i \in DOMAIN tables[k].table.columns |->
                          Markdown_row(tables[k].key, tables[k].table, i)]])
         \o <<<<>>, <<"#","#"," ","U+8868","U+5173","U+7CFB">>, <<>>>>
         \o flatten([k \in DOMAIN tables |->
                       [i \in DOMAIN tables[k].table.foreign_keys |->
                          Markdown_relation(tables[k].key, tables[k].table.foreign_keys[i])]]))

\* LayeredFormatter._get_column_constraints: no AI, no NN; one FK marker per foreign key
\* that holds the column
Layered_constraints(col, table) ==
    LET fks == Sorted({i \in DOMAIN table.foreign_keys : in_list(col.name, table.foreign_keys[i].columns)})
    IN  key_markers(col, table) \o [k \in DOMAIN fks |-> <<"F","K","U+2192">> \o table.foreign_keys[fks[k]].ref_table]

\* the columns of the second layer: in the primary key, in any index, or in a foreign key
Layered_core_cols(table) ==
    LET core == Sorted({i \in DOMAIN table.columns :
                   \/ in_list(table.columns[i].name, table.primary_keys)
                   \/ \E j \in DOMAIN table.indexes :
                          in_list(table.columns[i].name, table.indexes[j].columns)
                   \/ \E j \in DOMAIN table.foreign_keys :
                          in_list(table.columns[i].name, table.foreign_keys[j].columns)})
    IN  [k \in DOMAIN core |-> table.columns[core[k]]]

Layered_table_lines(table_name, table) ==
    LET core_cols == Layered_core_cols(table)
    IN  IF core_cols = <<>> THEN <<>>
        ELSE <<table_name \o <<" ","{">> \o (IF truthy(table.comment) THEN <<" ","-","-"," ">> \o table.comment[1] ELSE <<>>)>>
             \o [i \in DOMAIN core_cols |->
                   <<" "," ">> \o core_cols[i].name \o <<":"," ">> \o format_type_of(core_cols[i]) \o <<" ">>
                   \o join(<<" ">>, Layered_constraints(core_cols[i], table))]
             \o <<<<"}">>, <<>>>>

Layered_relation_lines(table_name, table) ==
    IF table.foreign_keys = <<>> THEN <<>>
    ELSE <<table_name \o <<":">>>>
         \o [i \in DOMAIN table.foreign_keys |->
               <<" "," ","U+2192"," ">> \o table.foreign_keys[i].ref_table \o <<" ","(">>
               \o join(<<","," ">>, table.foreign_keys[i].columns) \o <<" ","U+2192"," ">>
               \o join(<<","," ">>, table.foreign_keys[i].ref_columns) \o <<")">>]
         \o <<<<>>>>

\* LayeredFormatter.format
LayeredFormatter_format(tables) ==
    join(<<"\n">>,
         <<<<"=","=","="," ","U+7B2C","U+4E00","U+5C42","U+FF1A","U+6570","U+636E","U+5E93","U+8868","U+6982","U+89C8"," ","=","=","=">>, <<>>,
           <<"U+5171"," ">> \o int_str(Len(tables)) \o <<" ","U+5F20","U+8868",":"," ">> \o join(<<","," ">>, [k \in DOMAIN tables |-> tables[k].key]),
           <<>>, <<"=","=","="," ","U+7B2C","U+4E8C","U+5C42","U+FF1A","U+6838","U+5FC3","U+8868","U+7ED3","U+6784"," ","=","=","=">>, <<>>>>
         \o flatten([k \in DOMAIN tables |-> Layered_table_lines(tables[k].key, tables[k].table)])
         \o <<<<"=","=","="," ","U+7B2C","U+4E09","U+5C42","U+FF1A","U+8868","U+5173","U+7CFB","U+8BE6","U+60C5"," ","=","=","=">>, <<>>>>
         \o flatten([k \in DOMAIN tables |-> Layered_relation_lines(tables[k].key, tables[k].table)]))

\* the subsequence of the columns that P holds of
filter_columns(table, P(_)) ==
    LET hits == Sorted({i \in DOMAIN table.columns : P(table.columns[i])})
    IN  [k \in DOMAIN hits |-> table.columns[hits[k]]]

\* "- **name**(pk:type, ...) [biz, ...] - comment"
ERD_entity_line(table_name, table) ==
    LET is_pk(col) == in_list(col.name, table.primary_keys)
        is_biz(col) == truthy(col.comment) /\ ~in_list(col.name, table.primary_keys)
        pk_cols == filter_columns(table, is_pk)
        all_biz == filter_columns(table, is_biz)
        biz_cols == SubSeq(all_biz, 1, IF Len(all_biz) < 3 THEN Len(all_biz) ELSE 3)
    IN  <<"-"," ","*","*">> \o table_name \o <<"*","*","(">>
        \o join(<<","," ">>, [i \in DOMAIN pk_cols |-> pk_cols[i].name \o <<":">> \o pk_cols[i].data_type])
        \o <<")"," ","[">> \o join(<<","," ">>, [i \in DOMAIN biz_cols |-> biz_cols[i].name]) \o <<"]">>
        \o (IF truthy(table.comment) THEN <<" ","-"," ">> \o table.comment[1] ELSE <<>>)

ERD_relation_line(table_name, fk) ==
    <<"-"," ">> \o table_name \o <<".">> \o fk.columns[1] \o <<" ","U+2192"," ">> \o fk.ref_table \o <<".">>
    \o fk.ref_columns[1] \o <<" ","(","1",":","N",")">>

ERD_index_lines(table_name, table) ==
    LET hits == Sorted({i \in DOMAIN table.indexes : table.indexes[i].index_type = "INDEX"})
    IN  IF hits = <<>> THEN <<>>
        ELSE <<table_name \o <<":">>>>
             \o [k \in DOMAIN hits |->
                   <<" "," ","-"," ">> \o table.indexes[hits[k]].name \o <<":"," ","(">>
                   \o join(<<","," ">>, table.indexes[hits[k]].columns) \o <<")">>]

\* ERDFormatter.format
ERDFormatter_format(tables) ==
    join(<<"\n">>,
         <<<<"=","=","="," ","U+5B9E","U+4F53","U+5173","U+7CFB","U+63CF","U+8FF0"," ","(","E","R","D",")"," ","=","=","=">>, <<>>, <<"#","#"," ","U+6838","U+5FC3","U+5B9E","U+4F53","U+FF1A">>, <<>>>>
         \o [k \in DOMAIN tables |-> ERD_entity_line(tables[k].key, tables[k].table)]
         \o <<<<>>, <<"#","#"," ","U+5173","U+7CFB","U+6620","U+5C04","U+FF1A">>, <<>>>>
         \o flatten([k \in DOMAIN tables |->
                       [i \in DOMAIN tables[k].table.foreign_keys |->
                          ERD_relation_line(tables[k].key, tables[k].table.foreign_keys[i])]])
         \o <<<<>>, <<"#","#"," ","U+7D22","U+5F15","U+63D0","U+793A","U+FF1A">>, <<>>>>
         \o flatten([k \in DOMAIN tables |-> ERD_index_lines(tables[k].key, tables[k].table)]))

\* a variant of Minimal_column that takes the last foreign key that holds the column
Minimal_column_last_fk(col, table) ==
    LET fks == {i \in DOMAIN table.foreign_keys : in_list(col.name, table.foreign_keys[i].columns)}
    IN  col.name
        \o (IF in_list(col.name, table.primary_keys) THEN <<"*">>
            ELSE IF in_index_of_type(col, table, "UNIQUE") THEN <<"!">> ELSE <<>>)
        \o (IF fks # {} THEN <<">">> \o table.foreign_keys[Max(fks)].ref_table ELSE <<>>)

\* the column with its sigils: "*" or else "!", then ">ref" of the first foreign key
\* that holds the column
Minimal_column(col, table) ==
    LET fks == {i \in DOMAIN table.foreign_keys : in_list(col.name, table.foreign_keys[i].columns)}
    IN  col.name
        \o (IF in_list(col.name, table.primary_keys) THEN <<"*">>
            ELSE IF in_index_of_type(col, table, "UNIQUE") THEN <<"!">> ELSE <<>>)
        \o (IF fks # {} THEN <<">">> \o table.foreign_keys[Min(fks)].ref_table ELSE <<>>)

\* a variant of Minimal_referenced_by without the test that skips the table itself
Minimal_referenced_by_with_self(tables, table_name) ==
    LET hits == Sorted({k \in DOMAIN tables :
                   \E i \in DOMAIN tables[k].table.foreign_keys :
                       tables[k].table.foreign_keys[i].ref_table = table_name})
    IN  [j \in DOMAIN hits |-> tables[hits[j]].key]

\* the list `referenced_by` of MinimalFormatter.format: every other table with a foreign
\* key to table_name, once
Minimal_referenced_by(tables, table_name) ==
    LET hits == Sorted({k \in DOMAIN tables :
                   /\ tables[k].key # table_name
                   /\ \E i \in DOMAIN tables[k].table.foreign_keys :
                          tables[k].table.foreign_keys[i].ref_table = table_name})
    IN  [j \in DOMAIN hits |-> tables[hits[j]].key]

\* the position of a character in the order of code points (of the alphabet)
char_code(c) ==
    LET order == <<"\t","\n"," ","!","\"","#","$","%","&","'","(",")","*","+",",","-",".","/">> \o Digits \o <<":",";","<","=",">","?","@">> \o UpperCase \o <<"[","\\","]","^","_">>
                 \o <<Backtick>> \o LowerCase \o <<"{","|","}","~">>
        at == {i \in DOMAIN order : order[i] = c}
    IN  IF at = {} THEN 0 ELSE Min(at)

\* a < b for two strings, as python compares them
str_less(a, b) ==
    \E i \in 1..(Len(a) + 1) :
        /\ i <= Len(b)
        /\ \A k \in 1..(i - 1) : a[k] = b[k]
        /\ (i = Len(a) + 1 \/ char_code(a[i]) < char_code(b[i]))

\* the iteration order of set(names), names without duplicates.  The order of a set of
\* str follows the hashes of the strings, which change with the hash seed of the
\* process: seed 0 stands for a process whose hashes ascend with the strings, seed 1 for
\* one whose hashes descend.
set_order(names, hash_seed) ==
    LET rank(i) == Cardinality({j \in DOMAIN names :
                        IF hash_seed = 0 THEN str_less(names[j], names[i])
                        ELSE str_less(names[i], names[j])})
    IN  [r \in DOMAIN names |-> names[CHOOSE i \in DOMAIN names : rank(i) = r - 1]]

Minimal_table_line(tables, table_name, table, hash_seed) ==
    LET referenced_by == Minimal_referenced_by(tables, table_name)
    IN  table_name \o <<"(">>
        \o join(<<",">>, [i \in DOMAIN table.columns |-> Minimal_column(table.columns[i], table)])
        \o <<")">>
        \o (IF referenced_by # <<>> THEN <<" ","U+2190"," ">> \o join(<<",">>, set_order(referenced_by, hash_seed))
            ELSE <<>>)
        \o (IF truthy(table.comment) THEN <<" ","#"," ">> \o table.comment[1] ELSE <<>>)

\* MinimalFormatter.format, in a process with the given hash seed
MinimalFormatter_format(tables, hash_seed) ==
    join(<<"\n">>,
         <<<<"#"," ","U+56FE","U+4F8B",":"," ","*"," ","="," ","P","K",","," ","!"," ","="," ","U","K",","," ",">","t","a","b","l","e"," ","="," ","F","K",","," ","U+2190"," ","="," ","U+88AB","U+5F15","U+7528">>, <<>>>>
         \o [k \in DOMAIN tables |->
               Minimal_table_line(tables, tables[k].key, tables[k].table, hash_seed)])

\* ------------------------------------------------------------------------
\* DDLOptimizer and the objects of a run
\* ------------------------------------------------------------------------

\* the keys of DDLOptimizer.FORMATTERS, in the order of the dict
FORMATTERS ==
    <<<<"c","o","m","p","a","c","t">>, <<"j","s","o","n">>, <<"m","a","r","k","d","o","w","n">>, <<"l","a","y","e","r","e","d">>, <<"e","r","d">>, <<"m","i","n","i","m","a","l">>>>

\* FORMATTERS[format_type]().format(tables)
formatter_format(format_type, tables, seed) ==
    IF format_type = <<"c","o","m","p","a","c","t">> THEN CompactFormatter_format(tables)
    ELSE IF format_type = <<"j","s","o","n">> THEN JSONFormatter_format(tables)
    ELSE IF format_type = <<"m","a","r","k","d","o","w","n">> THEN MarkdownFormatter_format(tables)
    ELSE IF format_type = <<"l","a","y","e","r","e","d">> THEN LayeredFormatter_format(tables)
    ELSE IF format_type = <<"e","r","d">> THEN ERDFormatter_format(tables)
    ELSE MinimalFormatter_format(tables, seed)

\* the message of the ValueError of DDLOptimizer.format
unknown_format_message(format_type) ==
    <<"U","n","k","n","o","w","n"," ","f","o","r","m","a","t"," ","t","y","p","e",":"," ">> \o format_type \o <<"."," ","A","v","a","i","l","a","b","l","e"," ","f","o","r","m","a","t","s",":"," ">> \o join(<<","," ">>, FORMATTERS)

\* a variant of format without the test of the name
format_unchecked(format_type, tables, seed) ==
    [error |-> "none", output |-> formatter_format(format_type, tables, seed)]

\* DDLOptimizer.format on the items of self.tables: what it raises and what it returns
format(format_type, tables, seed) ==
    IF ~in_list(format_type, FORMATTERS)
    THEN [error |-> "ValueError", output |-> unknown_format_message(format_type)]
    ELSE [error |-> "none", output |-> formatter_format(format_type, tables, seed)]

\* round(a / b, 2), in hundredths; a / 0 raises.  A quotient that lies halfway between
\* two hundredths goes to the even one (it is a binary fraction then as long as b < 200).
round_div(a, b) ==
    IF b = 0 THEN [error |-> "ZeroDivisionError", x100 |-> 0]
    ELSE With((100 * a) \div b, LAMBDA q :
         With((100 * a) % b, LAMBDA r :
             [error |-> "none",
              x100 |-> IF 2 * r < b THEN q
                       ELSE IF 2 * r > b THEN q + 1
                       ELSE IF q % 2 = 0 THEN q ELSE q + 1]))

\* sum(counts), counts the values of a generator over tables.values()
RECURSIVE sum(_)
sum(counts) ==
    IF counts = <<>> THEN 0 ELSE counts[1] + sum(Tail(counts))

\* a variant of avg_columns_per_table without the test for no tables
avg_columns_unguarded(total_columns, total_tables) == round_div(total_columns, total_tables)

\* round(total_columns / len(self.tables), 2) if self.tables else 0
avg_columns_per_table(total_columns, total_tables) ==
    IF total_tables # 0 THEN round_div(total_columns, total_tables)
    ELSE [error |-> "none", x100 |-> 0]

\* a variant of get_statistics that leaves the PRIMARY indexes out of total_indexes
get_statistics_no_primary(tables) ==
    With(sum([k \in DOMAIN tables |-> Len(tables[k].table.columns)]), LAMBDA total_columns :
    With(avg_columns_per_table(total_columns, Len(tables)), LAMBDA avg :
        [error |-> avg.error,
         total_tables |-> Len(tables),
         total_columns |-> total_columns,
         total_indexes |-> sum([k \in DOMAIN tables |->
                                  Len(SelectSeq(tables[k].table.indexes,
                                                LAMBDA index : index.index_type # "PRIMARY"))]),
         total_foreign_keys |-> sum([k \in DOMAIN tables |-> Len(tables[k].table.foreign_keys)]),
         avg_columns_per_table_x100 |-> avg.x100]))

\* DDLOptimizer.get_statistics on the items of self.tables; avg_columns_per_table in
\* hundredths
get_statistics(tables) ==
    With(sum([k \in DOMAIN tables |-> Len(tables[k].table.columns)]), LAMBDA total_columns :
    With(avg_columns_per_table(total_columns, Len(tables)), LAMBDA avg :
        [error |-> avg.error,
         total_tables |-> Len(tables),
         total_columns |-> total_columns,
         total_indexes |-> sum([k \in DOMAIN tables |-> Len(tables[k].table.indexes)]),
         total_foreign_keys |-> sum([k \in DOMAIN tables |-> Len(tables[k].table.foreign_keys)]),
         avg_columns_per_table_x100 |-> avg.x100]))

\* a variant of filter_items without the test of the name
filter_items_all(d, table_names) == d

\* {name: table for name, table in self.tables.items() if name in table_names}
filter_items(d, table_names) ==
    SelectSeq(d, LAMBDA item : in_list(item.key, table_names))

\* a variant of exclude_items that tests the first name of the list only
exclude_items_first(d, table_names) ==
    SelectSeq(d, LAMBDA item : table_names = <<>> \/ item.key # table_names[1])

\* {name: table for name, table in self.tables.items() if name not in table_names}
exclude_items(d, table_names) ==
    SelectSeq(d, LAMBDA item : ~in_list(item.key, table_names))

\* the loop of DDLParser.parse on the dict d: self.tables[table.name] = table, the new
\* Table objects being first, first + 1, ...
RECURSIVE store_tables(_, _, _, _)
store_tables(d, made, n, first) ==
    IF n = 0 THEN d
    ELSE dict_set(store_tables(d, made, n - 1, first), made[n].name, first + n - 1)

\* the items of the dict that parse returns when self.tables holds nothing before the
\* loop: the Tables `made`, a later one of the same name replacing the earlier
fresh_items(made) ==
    With(store_tables(<<>>, made, Len(made), 1), LAMBDA d :
        [k \in DOMAIN d |-> [key |-> d[k].key, table |-> made[d[k].value]]])

\* ------------------------------------------------------------------------
\* The inputs of a run
\* ------------------------------------------------------------------------

\* a text of three tables a, b and c, as test_filter has three tables
TextABC ==
    <<"C","R","E","A","T","E"," ","T","A","B","L","E"," ","a"," ","(","i","d"," ","b","i","g","i","n","t"," ","P","R","I","M","A","R","Y"," ","K","E","Y",")",";","\n","C","R","E","A","T","E"," ","T","A","B","L","E"," ","b"," ","(","i","d"," ","b","i","g","i","n","t"," ","P","R","I","M","A","R","Y"," ","K","E","Y",")",";","\n","C","R","E","A","T","E"," ","T","A","B","L","E"," ","c"," ","(","i","d"," ","b","i","g","i","n","t"," ","P","R","I","M","A","R","Y"," ","K","E","Y",")",";">>

\* the text of test_statistics, its indentation shortened: two tables of three columns
\* each and one foreign key
TextUsersOrders ==
    <<"C","R","E","A","T","E"," ","T","A","B","L","E"," ","u","s","e","r","s"," ","(","\n"," ","i","d"," ","b","i","g","i","n","t"," ","N","O","T"," ","N","U","L","L"," ","A","U","T","O","_","I","N","C","R","E","M","E","N","T",",","\n"," ","u","s","e","r","n","a","m","e"," ","v","a","r","c","h","a","r","(","5","0",")"," ","N","O","T"," ","N","U","L","L",",","\n"," ","e","m","a","i","l"," ","v","a","r","c","h","a","r","(","1","0","0",")"," ","N","O","T"," ","N","U","L","L",",","\n"," ","P","R","I","M","A","R","Y"," ","K","E","Y"," ","(","i","d",")",",","\n"," ","U","N","I","Q","U","E"," ","K","E","Y"," ","u","k","_","u","s","e","r","n","a","m","e"," ","(","u","s","e","r","n","a","m","e",")",",","\n"," ","K","E","Y"," ","i","d","x","_","e","m","a","i","l"," ","(","e","m","a","i","l",")","\n",")",";","\n","C","R","E","A","T","E"," ","T","A","B","L","E"," ","o","r","d","e","r","s"," ","(","\n"," ","i","d"," ","b","i","g","i","n","t"," ","N","O","T"," ","N","U","L","L"," ","A","U","T","O","_","I","N","C","R","E","M","E","N","T",",","\n"," ","u","s","e","r","_","i","d"," ","b","i","g","i","n","t"," ","N","O","T"," ","N","U","L","L",",","\n"," ","a","m","o","u","n","t"," ","d","e","c","i","m","a","l","(","1","0",",","2",")"," ","N","O","T"," ","N","U","L","L",",","\n"," ","P","R","I","M","A","R","Y"," ","K","E","Y"," ","(","i","d",")",",","\n"," ","C","O","N","S","T","R","A","I","N","T"," ","f","k","_","u","s","e","r"," ","F","O","R","E","I","G","N"," ","K","E","Y"," ","(","u","s","e","r","_","i","d",")"," ","R","E","F","E","R","E","N","C","E","S"," ","u","s","e","r","s"," ","(","i","d",")","\n",")",";">>

\* a table without columns, and another definition of table b
TextEmptyTable ==
    <<"C","R","E","A","T","E"," ","T","A","B","L","E"," ","q"," ","(",")",";","\n","C","R","E","A","T","E"," ","T","A","B","L","E"," ","b"," ","(","a","_","i","d"," ","i","n","t",","," ","F","O","R","E","I","G","N"," ","K","E","Y"," ","(","a","_","i","d",")"," ","R","E","F","E","R","E","N","C","E","S"," ","a"," ","(","i","d",")",")",";">>

\* no CREATE TABLE statement
TextNoTable ==
    <<"-","-"," ","n","o","t","h","i","n","g","\n","S","E","L","E","C","T"," ","1",";">>

Texts == <<TextABC, TextUsersOrders, TextEmptyTable, TextNoTable>>

\* parsed_tables of every text
ParsedTexts == [i \in DOMAIN Texts |-> parsed_tables(Texts[i])]

\* the format names a caller passes: the six of FORMATTERS and one that is none of them
FormatNames == {FORMATTERS[i] : i \in DOMAIN FORMATTERS} \cup {<<"x","m","l">>}

\* the format names of the calls of a run of the whole facade: the default of optimize_text
\* and format, and one that is no key of FORMATTERS
CallFormats == {<<"c","o","m","p","a","c","t">>, <<"x","m","l">>}

\* the lists of table names passed to filter_tables and exclude_tables
NameLists ==
    {<<<<"a">>, <<"b">>>>, <<<<"b">>, <<"z","z">>>>}

\* the most DDLOptimizer objects of a run
MaxOptimizers == 3

\* the most calls of optimize_text in a run
MaxParses == 2

\* ------------------------------------------------------------------------
\* State
\* ------------------------------------------------------------------------

VARIABLES
    heap,        \* the Table objects made so far; a Table object is its index
    dicts,       \* the dict objects made so far: a sequence of [key, value], value a Table object
    optimizers,  \* the DDLOptimizer objects: [parser, tables], the dicts that self.parser.tables
                 \* and self.tables refer to
    hash_seed,   \* the hash seed of the process
    parses,      \* the calls of optimize_text so far
    returned,    \* the dicts that DDLParser.parse has returned
    result       \* the last call and what it returned or raised

vars == <<heap, dicts, optimizers, hash_seed, parses, returned, result>>

\* d.items() with the Table objects looked up, for a dict d of the objects (dicts ds,
\* Tables hp)
items_in(hp, ds, d) == [k \in DOMAIN ds[d] |-> [key |-> ds[d][k].key, table |-> hp[ds[d][k].value]]]

\* d.items() now
items(d) == items_in(heap, dicts, d)

\* list(d.keys())
keys(d) == [k \in DOMAIN dicts[d] |-> dicts[d][k].key]

NoStatistics ==
    [error |-> "none", total_tables |-> 0, total_columns |-> 0, total_indexes |-> 0,
     total_foreign_keys |-> 0, avg_columns_per_table_x100 |-> 0]

\* a call of optimize_text or format: op on optimizer `self`, its arguments, and
\* `formatted`, what format raised (error) and returned (output)
FormatResult(op, self, text, format_type, formatted) ==
    [op |-> op, self |-> self, text |-> text, format_type |-> format_type,
     table_names |-> <<>>, error |-> formatted.error, output |-> formatted.output,
     new |-> 0, stats |-> NoStatistics]

\* a call of filter_tables or exclude_tables and the optimizer it returned
DeriveResult(op, self, table_names, new) ==
    [op |-> op, self |-> self, text |-> 0, format_type |-> <<>>,
     table_names |-> table_names, error |-> "none", output |-> <<>>,
     new |-> new, stats |-> NoStatistics]

\* a call of get_statistics and what it returned or raised
StatisticsResult(self, stats) ==
    [op |-> "get_statistics", self |-> self, text |-> 0, format_type |-> <<>>,
     table_names |-> <<>>, error |-> stats.error, output |-> <<>>,
     new |-> 0, stats |-> stats]

\* optimizer = DDLOptimizer(): self.parser = DDLParser() with its empty dict, and
\* self.tables = {}
Init ==
    /\ heap = <<>>
    /\ dicts = <<<<>>, <<>>>>
    /\ optimizers = <<[parser |-> 1, tables |-> 2]>>
    /\ hash_seed \in {0, 1}
    /\ parses = 0
    /\ returned = {}
    /\ result = [op |-> "init", self |-> 1, text |-> 0, format_type |-> <<>>,
                 table_names |-> <<>>, error |-> "none", output |-> <<>>,
                 new |-> 0, stats |-> NoStatistics]

\* DDLParser.parse on the dict d, which builds the Tables `made`: the dict afterwards
parse(d, made) == store_tables(d, made, Len(made), Len(heap) + 1)

\* a variant of optimize_text that looks the format name up before it parses: with an
\* unknown name nothing is parsed or stored
OptimizeText_lookup_first(self, text, format_type) ==
    IF format(format_type, <<>>, hash_seed).error = "none"
    THEN /\ parses < MaxParses
         /\ parses' = parses + 1
         /\ heap' = heap \o ParsedTexts[text]
         /\ dicts' = [dicts EXCEPT ![optimizers[self].parser] = parse(dicts[optimizers[self].parser], ParsedTexts[text])]
         /\ returned' = returned \cup {optimizers[self].parser}
         /\ optimizers' = [optimizers EXCEPT ![self].tables = optimizers[self].parser]
         /\ result' = FormatResult("optimize_text", self, text, format_type,
                          format(format_type, items_in(heap', dicts', optimizers'[self].tables), hash_seed))
         /\ UNCHANGED hash_seed
    ELSE /\ result' = FormatResult("optimize_text", self, text, format_type,
                          format(format_type, <<>>, hash_seed))
         /\ UNCHANGED <<heap, dicts, optimizers, hash_seed, parses, returned>>

\* self.tables = self.parser.parse(ddl_text); return self.format(format_type)
OptimizeText(self, text, format_type) ==
    /\ parses < MaxParses
    /\ parses' = parses + 1
    /\ heap' = heap \o ParsedTexts[text]
    /\ dicts' = [dicts EXCEPT ![optimizers[self].parser] = parse(dicts[optimizers[self].parser], ParsedTexts[text])]
    /\ returned' = returned \cup {optimizers[self].parser}
    /\ optimizers' = [optimizers EXCEPT ![self].tables = optimizers[self].parser]
    /\ result' = FormatResult("optimize_text", self, text, format_type,
                     format(format_type, items_in(heap', dicts', optimizers'[self].tables), hash_seed))
    /\ UNCHANGED hash_seed

\* DDLOptimizer.format
Format(self, format_type) ==
    /\ result' = FormatResult("format", self, 0, format_type,
                     format(format_type, items(optimizers[self].tables), hash_seed))
    /\ UNCHANGED <<heap, dicts, optimizers, hash_seed, parses, returned>>

\* a variant of Derive that also stores the new items in the dict of the source
DeriveInPlace(op, self, table_names, new_items) ==
    /\ Len(optimizers) < MaxOptimizers
    /\ dicts' = [dicts EXCEPT ![optimizers[self].tables] = new_items] \o <<<<>>, <<>>, new_items>>
    /\ optimizers' = Append(optimizers, [parser |-> Len(dicts) + 1, tables |-> Len(dicts) + 3])
    /\ result' = DeriveResult(op, self, table_names, Len(optimizers) + 1)
    /\ UNCHANGED <<heap, hash_seed, parses, returned>>

\* new_optimizer = DDLOptimizer(); new_optimizer.tables = {...}; return new_optimizer.
\* The new parser has its own dict, the dict of __init__ is dropped for the new one.
Derive(op, self, table_names, new_items) ==
    /\ Len(optimizers) < MaxOptimizers
    /\ dicts' = dicts \o <<<<>>, <<>>, new_items>>
    /\ optimizers' = Append(optimizers, [parser |-> Len(dicts) + 1, tables |-> Len(dicts) + 3])
    /\ result' = DeriveResult(op, self, table_names, Len(optimizers) + 1)
    /\ UNCHANGED <<heap, hash_seed, parses, returned>>

\* DDLOptimizer.filter_tables
FilterTables(self, table_names) ==
    Derive("filter_tables", self, table_names,
           filter_items(dicts[optimizers[self].tables], table_names))

\* DDLOptimizer.exclude_tables
ExcludeTables(self, table_names) ==
    Derive("exclude_tables", self, table_names,
           exclude_items(dicts[optimizers[self].tables], table_names))

\* DDLOptimizer.get_statistics
GetStatistics(self) ==
    /\ result' = StatisticsResult(self, get_statistics(items(optimizers[self].tables)))
    /\ UNCHANGED <<heap, dicts, optimizers, hash_seed, parses, returned>>

\* the calls of a run of the whole facade
Next ==
    \/ \E self \in DOMAIN optimizers, text \in DOMAIN Texts, format_type \in CallFormats :
           OptimizeText(self, text, format_type)
    \/ \E self \in DOMAIN optimizers, format_type \in CallFormats : Format(self, format_type)
    \/ \E self \in DOMAIN optimizers, table_names \in NameLists : FilterTables(self, table_names)
    \/ \E self \in DOMAIN optimizers, table_names \in NameLists : ExcludeTables(self, table_names)
    \/ \E self \in DOMAIN optimizers : GetStatistics(self)

Spec == Init /\ [][Next]_vars

\* the calls of a run that formats the schema of one optimizer in every format
NextFormat ==
    \/ \E text \in DOMAIN Texts, format_type \in FormatNames : OptimizeText(1, text, format_type)
    \/ \E format_type \in FormatNames : Format(1, format_type)

SpecFormat == Init /\ [][NextFormat]_vars

\* ------------------------------------------------------------------------
\* Properties
\* ------------------------------------------------------------------------

\* C1: each parse produces an independent schema: after optimize_text on a text the
\* schema of the optimizer holds exactly the tables of that text, none of an earlier
\* text, and the text returned is the format of exactly these tables.
C1_EachParseIndependent ==
    result.op = "optimize_text" =>
        /\ items(optimizers[result.self].tables) = fresh_items(ParsedTexts[result.text])
        /\ result.output
             = format(result.format_type, fresh_items(ParsedTexts[result.text]), hash_seed).output

\* C2: a schema is immutable once parse has returned it: no later call changes the set
\* of its table names or the Table a name maps to.
C2_ReturnedSchemaImmutable ==
    [][\A d \in returned :
          {dicts'[d][k] : k \in DOMAIN dicts'[d]} = {dicts[d][k] : k \in DOMAIN dicts[d]}]_vars

\* C3: filter_tables and exclude_tables never mutate what they are applied to: the call
\* leaves every dict and every optimizer there was as it is and makes no Table; the
\* tables of the optimizer it returns are a new dict, and each of its entries is an entry
\* of the source, the same Table object under the same name.
C3_FilterExcludeFrame ==
    [][Len(optimizers') > Len(optimizers) =>
          /\ heap' = heap
          /\ \A d \in DOMAIN dicts : dicts'[d] = dicts[d]
          /\ \A o \in DOMAIN optimizers : optimizers'[o] = optimizers[o]
          /\ optimizers'[result'.new].tables \notin DOMAIN dicts
          /\ \A o \in DOMAIN optimizers :
                 optimizers'[result'.new].tables \notin {optimizers'[o].tables, optimizers'[o].parser}
          /\ \A k \in DOMAIN dicts'[optimizers'[result'.new].tables] :
                 in_list(dicts'[optimizers'[result'.new].tables][k],
                         dicts[optimizers[result'.self].tables])]_vars

\* an exclude_tables on an optimizer that filter_tables or exclude_tables returned, which
\* shares a Table with it
C3_Witness ==
    /\ result.op = "exclude_tables"
    /\ result.self > 1
    /\ dicts[optimizers[result.new].tables] # <<>>

\* C4: filter_tables returns exactly the tables of the schema whose name is in the list;
\* a name of the list that the schema does not have raises nothing and makes no entry.
C4_FilterKeepsListed ==
    result.op = "filter_tables" =>
        /\ result.error = "none"
        /\ {dicts[optimizers[result.new].tables][k] : k \in DOMAIN dicts[optimizers[result.new].tables]}
             = {e \in {dicts[optimizers[result.self].tables][k] :
                          k \in DOMAIN dicts[optimizers[result.self].tables]} :
                   \E i \in DOMAIN result.table_names : result.table_names[i] = e.key}

\* a filter_tables with a name the schema does not have, which keeps a table
C4_Witness ==
    /\ result.op = "filter_tables"
    /\ dicts[optimizers[result.new].tables] # <<>>
    /\ \E i \in DOMAIN result.table_names :
           \A k \in DOMAIN dicts[optimizers[result.self].tables] :
               dicts[optimizers[result.self].tables][k].key # result.table_names[i]

\* C5: exclude_tables returns exactly the tables whose name is not in the list, and
\* exclude M of filter N of a schema holds exactly its tables whose name is in N and not
\* in M; on {a, b, c}, filter [a, b] then exclude [b] gives exactly {a}.
C5_FilterThenExclude ==
    /\ result.op = "exclude_tables" =>
           {dicts[optimizers[result.new].tables][k] : k \in DOMAIN dicts[optimizers[result.new].tables]}
             = {e \in {dicts[optimizers[result.self].tables][k] :
                          k \in DOMAIN dicts[optimizers[result.self].tables]} :
                   \A i \in DOMAIN result.table_names : result.table_names[i] # e.key}
    /\ \A o \in DOMAIN optimizers, N \in NameLists, M \in NameLists :
           exclude_items(filter_items(dicts[optimizers[o].tables], N), M)
             = SelectSeq(dicts[optimizers[o].tables], LAMBDA e :
                   /\ \E i \in DOMAIN N : N[i] = e.key
                   /\ \A i \in DOMAIN M : M[i] # e.key)
    /\ \A o \in DOMAIN optimizers :
           keys(optimizers[o].tables) = <<<<"a">>, <<"b">>, <<"c">>>> =>
               LET kept == exclude_items(filter_items(dicts[optimizers[o].tables], <<<<"a">>, <<"b">>>>), <<<<"b">>>>)
               IN  [k \in DOMAIN kept |-> kept[k].key] = <<<<"a">>>>

\* on {a, b, c}: filter [a, b], then exclude [b, zz] on the optimizer returned, gives {a}
C5_Witness ==
    /\ result.op = "exclude_tables"
    /\ result.self = 2
    /\ result.new = 3
    /\ keys(optimizers[1].tables) = <<<<"a">>, <<"b">>, <<"c">>>>
    /\ keys(optimizers[2].tables) = <<<<"a">>, <<"b">>>>
    /\ keys(optimizers[3].tables) = <<<<"a">>>>

\* C6: format raises the unknown-format error exactly when the name is none of compact,
\* json, markdown, layered, erd, minimal, and the message holds each of the six; for each
\* of the six it returns a text; either way the schema of the optimizer stays as it is.
C6_UnknownFormatError ==
    [][result'.op = "format" =>
          LET six == {<<"c","o","m","p","a","c","t">>, <<"j","s","o","n">>, <<"m","a","r","k","d","o","w","n">>, <<"l","a","y","e","r","e","d">>, <<"e","r","d">>, <<"m","i","n","i","m","a","l">>}
          IN  /\ <<heap', dicts', optimizers'>> = <<heap, dicts, optimizers>>
              /\ result'.error = (IF result'.format_type \in six THEN "none" ELSE "ValueError")
              /\ result'.error = "ValueError" =>
                     /\ contains(result'.output, <<"U","n","k","n","o","w","n"," ","f","o","r","m","a","t"," ","t","y","p","e">>)
                     /\ \A name \in six : contains(result'.output, name)]_vars

\* format with a name that is none of the six, on a schema that has tables
C6_Witness ==
    /\ result.op = "format"
    /\ result.error = "ValueError"
    /\ result.format_type = <<"x","m","l">>
    /\ dicts[optimizers[result.self].tables] # <<>>

\* C7: get_statistics on a schema without tables raises nothing and returns 0 for the
\* average and for every count.
C7_EmptyStatistics ==
    (result.op = "get_statistics" /\ dicts[optimizers[result.self].tables] = <<>>) =>
        /\ result.error = "none"
        /\ result.stats.avg_columns_per_table_x100 = 0
        /\ result.stats.total_tables = 0
        /\ result.stats.total_columns = 0
        /\ result.stats.total_indexes = 0
        /\ result.stats.total_foreign_keys = 0

\* get_statistics on an optimizer that filter_tables or exclude_tables returned without
\* a table, out of a schema that has tables
C7_Witness ==
    /\ result.op = "get_statistics"
    /\ result.self > 1
    /\ dicts[optimizers[result.self].tables] = <<>>
    /\ dicts[optimizers[1].tables] # <<>>

\* C8: get_statistics counts the tables, the columns of all tables, the indexes of all
\* tables (the PRIMARY one included) and the foreign keys of all tables; for the schema
\* of two tables of three columns each and one foreign key it reports 2, 6 and 1.
C8_StatisticsCounts ==
    result.op = "get_statistics" =>
        LET T == items(optimizers[result.self].tables)
        IN  /\ result.stats.total_tables = Cardinality({T[k].key : k \in DOMAIN T})
            /\ result.stats.total_columns
                 = Cardinality(UNION {{<<k, i>> : i \in DOMAIN T[k].table.columns} : k \in DOMAIN T})
            /\ result.stats.total_indexes
                 = Cardinality(UNION {{<<k, i>> : i \in DOMAIN T[k].table.indexes} : k \in DOMAIN T})
            /\ result.stats.total_foreign_keys
                 = Cardinality(UNION {{<<k, i>> : i \in DOMAIN T[k].table.foreign_keys} : k \in DOMAIN T})
            /\ keys(optimizers[result.self].tables) = <<<<"u","s","e","r","s">>, <<"o","r","d","e","r","s">>>> =>
                   /\ result.stats.total_tables = 2
                   /\ result.stats.total_columns = 6
                   /\ result.stats.total_foreign_keys = 1

\* get_statistics on the schema of users and orders
C8_Witness ==
    /\ result.op = "get_statistics"
    /\ keys(optimizers[result.self].tables) = <<<<"u","s","e","r","s">>, <<"o","r","d","e","r","s">>>>
    /\ result.stats.total_columns = 6
    /\ result.stats.total_indexes = 4

\* C9: every table name of the schema appears verbatim in the text of each of the six
\* formatters, also the name of a table without columns and foreign keys.
C9_TableNamesInOutput ==
    (result.op \in {"format", "optimize_text"} /\ result.error = "none") =>
        \A k \in DOMAIN dicts[optimizers[result.self].tables] :
            contains(result.output, dicts[optimizers[result.self].tables][k].key)

\* C10: in the JSON text, referenced_by of a table B holds "A.<first local column>" for
\* each foreign key of another table A with ref_table = B, and nothing else; users has
\* "orders.user_id" for the foreign key of orders.
C10_JSONReferencedBy ==
    (result.op \in {"format", "optimize_text"} /\ result.format_type = <<"j","s","o","n">>) =>
        LET T == items(optimizers[result.self].tables)
            incoming(b) ==
                UNION {{T[a].key \o <<".">> \o T[a].table.foreign_keys[i].columns[1] :
                          i \in {j \in DOMAIN T[a].table.foreign_keys :
                                    T[a].table.foreign_keys[j].ref_table = T[b].key}} :
                       a \in {x \in DOMAIN T : T[x].key # T[b].key}}
        IN  /\ \A b \in DOMAIN T :
                   /\ {JSON_schema(T)[b].referenced_by[i] : i \in DOMAIN JSON_schema(T)[b].referenced_by}
                        = incoming(b)
                   /\ \A e \in incoming(b) : contains(result.output, json_str(e))
            /\ \A b \in DOMAIN T :
                   (T[b].key = <<"u","s","e","r","s">> /\ \E a \in DOMAIN T :
                        /\ T[a].key = <<"o","r","d","e","r","s">>
                        /\ \E i \in DOMAIN T[a].table.foreign_keys :
                               /\ T[a].table.foreign_keys[i].ref_table = <<"u","s","e","r","s">>
                               /\ T[a].table.foreign_keys[i].columns[1] = <<"u","s","e","r","_","i","d">>) =>
                       in_list(<<"o","r","d","e","r","s",".","u","s","e","r","_","i","d">>, JSON_schema(T)[b].referenced_by)

\* the JSON text of the schema of users and orders, with "orders.user_id"
C10_Witness ==
    /\ result.op = "format"
    /\ result.format_type = <<"j","s","o","n">>
    /\ keys(optimizers[result.self].tables) = <<<<"u","s","e","r","s">>, <<"o","r","d","e","r","s">>>>
    /\ contains(result.output, json_str(<<"o","r","d","e","r","s",".","u","s","e","r","_","i","d">>))

\* ------------------------------------------------------------------------
\* The files of a run, and optimize_file
\* ------------------------------------------------------------------------

\* the contents of the files that optimize_file is called with
Files ==
    <<
      \* 1: the statement of the primary key example
      <<"C","R","E","A","T","E"," ","T","A","B","L","E"," ","t"," ","(","i","d"," ","b","i","g","i","n","t"," ","N","O","T"," ","N","U","L","L"," ","A","U","T","O","_","I","N","C","R","E","M","E","N","T",","," ","P","R","I","M","A","R","Y"," ","K","E","Y"," ","(","i","d",")",")",";">>,
      \* 2: a length with a comma, and a primary key of two columns
      <<"C","R","E","A","T","E"," ","T","A","B","L","E"," ","p"," ","(","a"," ","i","n","t",","," ","b"," ","d","e","c","i","m","a","l","(","1","0",",","2",")",","," ","P","R","I","M","A","R","Y"," ","K","E","Y"," ","(","b",","," ","a",")",")",";">>,
      \* 3: a body that ends with a comma
      <<"C","R","E","A","T","E"," ","T","A","B","L","E"," ","r"," ","(","a"," ","i","n","t",",",")",";">>,
      \* 4: clauses of every kind, some of which more than one rule of _parse_table_body matches
      <<"C","R","E","A","T","E"," ","T","A","B","L","E"," ","c"," ","(","a"," ","i","n","t",","," ","b"," ","i","n","t",","," ","p","r","i","m","a","r","y"," ","k","e","y"," ","(","a",")",","," ","U","N","I","Q","U","E"," ","I","N","D","E","X"," ","u","k","_","a"," ","(","a",")",","," ","I","N","D","E","X"," ","i","d","x","_","b"," ","(","b",")"," ","C","O","M","M","E","N","T"," ","'","F","O","R","E","I","G","N"," ","K","E","Y"," ","(","b",")"," ","R","E","F","E","R","E","N","C","E","S"," ","x"," ","(","i","d",")","'",","," ","C","O","N","S","T","R","A","I","N","T"," ","f","k","_","b"," ","F","O","R","E","I","G","N"," ","K","E","Y"," ","(","b",")"," ","R","E","F","E","R","E","N","C","E","S"," ","x"," ","(","i","d",")",","," ","n"," ","t","e","x","t"," ","C","O","M","M","E","N","T"," ","'","n","o"," ","F","O","R","E","I","G","N"," ","K","E","Y","'",")",";">>,
      \* 5: a statement without any ")", one whose first "(" is never closed, and a well-formed one
      <<"C","R","E","A","T","E"," ","T","A","B","L","E"," ","w","o","r","s","e"," ","(","a"," ","i","n","t",";","\n","C","R","E","A","T","E"," ","T","A","B","L","E"," ","b","a","d"," ","(","a"," ","d","e","c","i","m","a","l","(","1","0",",","2",")",";","\n","C","R","E","A","T","E"," ","T","A","B","L","E"," ","g","o","o","d"," ","(","b"," ","i","n","t",")",";">>,
      \* 6: two statements and nothing else
      <<"C","R","E","A","T","E"," ","T","A","B","L","E"," ","a"," ","(","i","d"," ","i","n","t",")",";","\n","C","R","E","A","T","E"," ","T","A","B","L","E"," ","b"," ","(","i","d"," ","i","n","t",")",";">>,
      \* 7: FilePlain with an INSERT between the statements
      <<"C","R","E","A","T","E"," ","T","A","B","L","E"," ","a"," ","(","i","d"," ","i","n","t",")",";","\n","I","N","S","E","R","T"," ","I","N","T","O"," ","a"," ","(","i","d",")"," ","V","A","L","U","E","S"," ","(","1",")",";","\n","C","R","E","A","T","E"," ","T","A","B","L","E"," ","b"," ","(","i","d"," ","i","n","t",")",";">>,
      \* 8: FilePlain with an ALTER TABLE between the statements
      <<"C","R","E","A","T","E"," ","T","A","B","L","E"," ","a"," ","(","i","d"," ","i","n","t",")",";","\n","A","L","T","E","R"," ","T","A","B","L","E"," ","a"," ","A","D","D"," ","C","H","E","C","K"," ","(","i","d"," ","I","S"," ","N","O","T"," ","N","U","L","L",")",";","\n","C","R","E","A","T","E"," ","T","A","B","L","E"," ","b"," ","(","i","d"," ","i","n","t",")",";">>,
      \* 9: a column whose name starts with KEY, in the primary key
      <<"C","R","E","A","T","E"," ","T","A","B","L","E"," ","k"," ","(","k","e","y","_","i","d"," ","i","n","t",","," ","P","R","I","M","A","R","Y"," ","K","E","Y"," ","(","k","e","y","_","i","d",")",")",";">>,
      \* 10: two PRIMARY KEY clauses
      <<"C","R","E","A","T","E"," ","T","A","B","L","E"," ","d"," ","(","a"," ","i","n","t",","," ","b"," ","i","n","t",","," ","P","R","I","M","A","R","Y"," ","K","E","Y"," ","(","a",")",","," ","P","R","I","M","A","R","Y"," ","K","E","Y"," ","(","b",")",")",";">>,
      \* 11: columns in the primary key, in a UNIQUE index and in foreign keys
      <<"C","R","E","A","T","E"," ","T","A","B","L","E"," ","m"," ","(","a"," ","i","n","t",","," ","b"," ","i","n","t",","," ","c"," ","i","n","t",","," ","e"," ","i","n","t",","," ","P","R","I","M","A","R","Y"," ","K","E","Y"," ","(","a",")",","," ","U","N","I","Q","U","E"," ","K","E","Y"," ","u","k","_","b","c"," ","(","b",","," ","c",")",","," ","F","O","R","E","I","G","N"," ","K","E","Y"," ","(","b",")"," ","R","E","F","E","R","E","N","C","E","S"," ","y"," ","(","i","d",")",","," ","F","O","R","E","I","G","N"," ","K","E","Y"," ","(","b",","," ","e",")"," ","R","E","F","E","R","E","N","C","E","S"," ","z"," ","(","i","d",","," ","e",")",","," ","F","O","R","E","I","G","N"," ","K","E","Y"," ","(","a",")"," ","R","E","F","E","R","E","N","C","E","S"," ","w"," ","(","i","d",")",")",";">>,
      \* 12: a primary key column that is in a UNIQUE and in a plain index too
      <<"C","R","E","A","T","E"," ","T","A","B","L","E"," ","x"," ","(","a"," ","i","n","t"," ","N","O","T"," ","N","U","L","L"," ","A","U","T","O","_","I","N","C","R","E","M","E","N","T",","," ","b"," ","i","n","t"," ","N","O","T"," ","N","U","L","L",","," ","P","R","I","M","A","R","Y"," ","K","E","Y"," ","(","a",")",","," ","U","N","I","Q","U","E"," ","K","E","Y"," ","u","k","_","a"," ","(","a",")",","," ","K","E","Y"," ","i","d","x","_","a","b"," ","(","a",","," ","b",")",")",";">>,
      \* 13: a foreign key of two columns that references one column
      <<"C","R","E","A","T","E"," ","T","A","B","L","E"," ","f"," ","(","a"," ","i","n","t",","," ","b"," ","i","n","t",","," ","F","O","R","E","I","G","N"," ","K","E","Y"," ","(","a",","," ","b",")"," ","R","E","F","E","R","E","N","C","E","S"," ","t"," ","(","x",")",")",";">>,
      \* 14: unique-index clauses with and without a name
      <<"C","R","E","A","T","E"," ","T","A","B","L","E"," ","u"," ","(","c"," ","i","n","t",","," ","d"," ","i","n","t",","," ","U","N","I","Q","U","E"," ","K","E","Y"," ","u","k"," ","(","c",")",","," ","U","N","I","Q","U","E"," ","K","E","Y"," ","(","c",")",","," ","U","N","I","Q","U","E"," ","I","N","D","E","X"," ","u","x"," ","(","d",")",","," ","U","N","I","Q","U","E"," ","I","N","D","E","X"," ","(","d",")",")",";">>,
      \* 15: two statements for the table a, another table between them
      <<"C","R","E","A","T","E"," ","T","A","B","L","E"," ","a"," ","(","x"," ","i","n","t",","," ","P","R","I","M","A","R","Y"," ","K","E","Y"," ","(","x",")",")",";","\n","C","R","E","A","T","E"," ","T","A","B","L","E"," ","b"," ","(","i","d"," ","i","n","t",")",";","\n","C","R","E","A","T","E"," ","T","A","B","L","E"," ","a"," ","(","y"," ","t","e","x","t",","," ","K","E","Y"," ","k","y"," ","(","y",")",")",";">>,
      \* 16: COMMENT of a column and of the table, of a column only, of the table only
      <<"C","R","E","A","T","E"," ","T","A","B","L","E"," ","g"," ","(","a"," ","i","n","t"," ","C","O","M","M","E","N","T"," ","'","c","o","l"," ","a","'",")"," ","C","O","M","M","E","N","T","=","'","t","a","b"," ","g","'",";","\n","C","R","E","A","T","E"," ","T","A","B","L","E"," ","h"," ","(","a"," ","i","n","t"," ","C","O","M","M","E","N","T"," ","'","c","o","l"," ","a","'",")",";","\n","C","R","E","A","T","E"," ","T","A","B","L","E"," ","i"," ","(","a"," ","i","n","t",")"," ","C","O","M","M","E","N","T","=","'","t","a","b"," ","i","'",";">>,
      \* 17: statements without a ";" before the next CREATE TABLE and before the end of the text
      <<"C","R","E","A","T","E"," ","T","A","B","L","E"," ","a"," ","(","i","d"," ","i","n","t",")","\n","C","R","E","A","T","E"," ","T","A","B","L","E"," ","b"," ","(","i","d"," ","i","n","t",")",";","\n","C","R","E","A","T","E"," ","T","A","B","L","E"," ","c"," ","(","i","d"," ","i","n","t",")">>,
      \* 18: columns whose names start with KEY or INDEX
      <<"C","R","E","A","T","E"," ","T","A","B","L","E"," ","n"," ","(","k","e","y","_","i","d"," ","i","n","t",","," ","i","n","d","e","x","_","n","o"," ","i","n","t",","," ","I","n","d","e","x","_","k","e","y"," ","i","n","t","(","1","1",")",","," ","i","d"," ","i","n","t",")",";">>,
      \* 19: a table referenced by itself, by two other tables, by one of them twice
      <<"C","R","E","A","T","E"," ","T","A","B","L","E"," ","e"," ","(","i","d"," ","i","n","t",","," ","b","o","s","s"," ","i","n","t",","," ","F","O","R","E","I","G","N"," ","K","E","Y"," ","(","b","o","s","s",")"," ","R","E","F","E","R","E","N","C","E","S"," ","e"," ","(","i","d",")",")",";","\n","C","R","E","A","T","E"," ","T","A","B","L","E"," ","z","w"," ","(","e","_","i","d"," ","i","n","t",","," ","F","O","R","E","I","G","N"," ","K","E","Y"," ","(","e","_","i","d",")"," ","R","E","F","E","R","E","N","C","E","S"," ","e"," ","(","i","d",")",","," ","F","O","R","E","I","G","N"," ","K","E","Y"," ","(","e","_","i","d",")"," ","R","E","F","E","R","E","N","C","E","S"," ","g","o","n","e"," ","(","i","d",")",")",";","\n","C","R","E","A","T","E"," ","T","A","B","L","E"," ","a","b"," ","(","e","_","i","d"," ","i","n","t",","," ","o","_","i","d"," ","i","n","t",","," ","F","O","R","E","I","G","N"," ","K","E","Y"," ","(","e","_","i","d",")"," ","R","E","F","E","R","E","N","C","E","S"," ","e"," ","(","i","d",")",","," ","F","O","R","E","I","G","N"," ","K","E","Y"," ","(","o","_","i","d",")"," ","R","E","F","E","R","E","N","C","E","S"," ","e"," ","(","i","d",")",")",";">>
    >>

\* parsed_tables of the content of every file
ParsedFiles == [i \in DOMAIN Files |-> parsed_tables(Files[i])]

\* self.tables = self.parser.parse_file(file_path); return self.format(format_type).
\* parse_file reads the file and returns self.parse(content).
OptimizeFile(self, file, format_type) ==
    /\ parses < MaxParses
    /\ parses' = parses + 1
    /\ heap' = heap \o ParsedFiles[file]
    /\ dicts' = [dicts EXCEPT ![optimizers[self].parser] = parse(dicts[optimizers[self].parser], ParsedFiles[file])]
    /\ returned' = returned \cup {optimizers[self].parser}
    /\ optimizers' = [optimizers EXCEPT ![self].tables = optimizers[self].parser]
    /\ result' = FormatResult("optimize_file", self, file, format_type,
                     format(format_type, items_in(heap', dicts', optimizers'[self].tables), hash_seed))
    /\ UNCHANGED hash_seed

\* the calls of a run that reads files into one optimizer and formats its schema
NextFile ==
    \/ \E file \in DOMAIN Files, format_type \in FormatNames : OptimizeFile(1, file, format_type)
    \/ \E format_type \in FormatNames : Format(1, format_type)

SpecFile == Init /\ [][NextFile]_vars

\* the Tables that the last call of optimize_file made: the last of the heap
last_made == SubSeq(heap, Len(heap) - Len(ParsedFiles[result.text]) + 1, Len(heap))

\* ------------------------------------------------------------------------
\* Properties of the parser and of the formatters, on the files
\* ------------------------------------------------------------------------

\* C11: in the minimal text a primary key column that no foreign key holds is its name
\* and "*" only; a column of a UNIQUE index that is no primary key column has "!" behind
\* its name; a column that a foreign key holds ends with ">" and the referenced table of
\* the first such foreign key.  The line of each table holds its columns rendered so.
C11_MinimalSigils ==
    (result.op \in {"optimize_file", "format"} /\ result.format_type = <<"m","i","n","i","m","a","l">>) =>
        \A k \in DOMAIN dicts[optimizers[result.self].tables] :
            LET table == heap[dicts[optimizers[result.self].tables][k].value]
                rendered == [i \in DOMAIN table.columns |-> Minimal_column(table.columns[i], table)]
                starts_with(s, pre) == Len(pre) <= Len(s) /\ SubSeq(s, 1, Len(pre)) = pre
                ends_with(s, suf) ==
                    Len(suf) <= Len(s) /\ SubSeq(s, Len(s) - Len(suf) + 1, Len(s)) = suf
                fks(i) == {j \in DOMAIN table.foreign_keys :
                              \E c \in DOMAIN table.foreign_keys[j].columns :
                                  table.foreign_keys[j].columns[c] = table.columns[i].name}
                pk(i) == \E c \in DOMAIN table.primary_keys : table.primary_keys[c] = table.columns[i].name
                uk(i) == \E j \in DOMAIN table.indexes :
                             /\ table.indexes[j].index_type = "UNIQUE"
                             /\ \E c \in DOMAIN table.indexes[j].columns :
                                    table.indexes[j].columns[c] = table.columns[i].name
            IN  /\ contains(result.output,
                            <<"\n">> \o table.name \o <<"(">> \o join(<<",">>, rendered) \o <<")">>)
                /\ \A i \in DOMAIN table.columns :
                       /\ (pk(i) /\ fks(i) = {}) => rendered[i] = table.columns[i].name \o <<"*">>
                       /\ (uk(i) /\ ~pk(i)) => starts_with(rendered[i], table.columns[i].name \o <<"!">>)
                       /\ fks(i) # {} =>
                              ends_with(rendered[i], <<">">> \o table.foreign_keys[Min(fks(i))].ref_table)

\* the minimal text of the tables t and m: id of t in the primary key only; a of m in the
\* primary key and in a foreign key, b in a UNIQUE index and in two foreign keys, c in a
\* UNIQUE index only
C11_Witness ==
    /\ result.op = "optimize_file"
    /\ result.format_type = <<"m","i","n","i","m","a","l">>
    /\ contains(result.output, <<"t","(","i","d","*",")">>)
    /\ contains(result.output, <<"m","(","a","*",">","w",",","b","!",">","y",",","c","!",",","e",">","z",")">>)

\* the statements that parse finds in the content of every file
FileStatements == [i \in DOMAIN Files |-> extract_create_tables(remove_comments(Files[i]))]

\* C12 as the code has it: the body splitter ends a clause at a comma exactly when the
\* depth counted so far is 0, a comma at another depth stays in its clause; the clauses
\* joined with commas are the body, but for a body that ends with a comma at depth 0,
\* which loses that comma (no empty last clause is returned); decimal(10,2) gives one
\* column with the length "10,2".
C12_SplitAtDepthZero ==
    result.op = "optimize_file" =>
        /\ \A s \in DOMAIN FileStatements[result.text] :
               body_match(FileStatements[result.text][s]) # <<>> =>
                   LET body == body_match(FileStatements[result.text][s])[1]
                       clauses == split_definitions(body)
                       depth(i) == Cardinality({k \in 1..(i - 1) : body[k] = "("})
                                     - Cardinality({k \in 1..(i - 1) : body[k] = ")"})
                       top == {i \in DOMAIN body : body[i] = "," /\ depth(i) = 0}
                       open_end == Len(body) \in top
                       start(k) == IF k = 1 THEN 0 ELSE Max({i \in top : Cardinality({j \in top : j <= i}) = k - 1})
                   IN  /\ Len(clauses) = (IF body = <<>> \/ open_end THEN Cardinality(top)
                                          ELSE Cardinality(top) + 1)
                       /\ \A k \in DOMAIN clauses :
                              /\ clauses[k] = SubSeq(body, start(k) + 1, start(k) + Len(clauses[k]))
                              /\ \A q \in DOMAIN clauses[k] : start(k) + q \notin top
                              /\ start(k) + Len(clauses[k]) + 1 \in top \cup {Len(body) + 1}
                       /\ join(<<",">>, clauses)
                            = (IF open_end THEN SubSeq(body, 1, Len(body) - 1) ELSE body)
        /\ result.text = 2 =>
               /\ Len(last_made) = 1
               /\ Len(last_made[1].columns) = 2
               /\ last_made[1].columns[2].name = <<"b">>
               /\ last_made[1].columns[2].data_type = <<"d","e","c","i","m","a","l">>
               /\ last_made[1].columns[2].length = <<<<"1","0",",","2">>>>

\* the file with decimal(10,2) and PRIMARY KEY (b, a) has been read: three clauses
C12_Witness ==
    /\ result.op = "optimize_file"
    /\ result.text = 2
    /\ Len(split_definitions(body_match(FileStatements[2][1])[1])) = 3
    /\ last_made[1].columns[2].length = <<<<"1","0",",","2">>>>

\* C12 as stated: the clauses joined with commas are the body, for every body
C12_SplitJoinReproduces ==
    result.op = "optimize_file" =>
        \A s \in DOMAIN FileStatements[result.text] :
            body_match(FileStatements[result.text][s]) # <<>> =>
                join(<<",">>, split_definitions(body_match(FileStatements[result.text][s])[1]))
                  = body_match(FileStatements[result.text][s])[1]

\* C13: a PRIMARY KEY (c1, ..., cn) clause sets primary_keys to [c1, ..., cn] in the
\* order of the clause and appends one Index named PRIMARY of type PRIMARY with these
\* columns; the statement of t gives one table t with the one column id (not nullable,
\* auto_increment) and primary_keys = [id].
C13_PrimaryKeyClause ==
    result.op = "optimize_file" =>
        /\ Len(last_made) = Len(FileStatements[result.text]) =>
               \A j \in DOMAIN last_made :
                   LET clauses == split_definitions(body_match(FileStatements[result.text][j])[1])
                       is_pk(c) == lit_at(upper(strip(c)), 1, <<"P","R","I","M","A","R","Y"," ","K","E","Y">>)
                       pk == SelectSeq(clauses, is_pk)
                       \* the names between the first "(" of the clause and the ")" after it
                       inner(c) == SubSeq(c, Min({i \in DOMAIN c : c[i] = "("}) + 1,
                                          Min({i \in DOMAIN c : c[i] = ")"}) - 1)
                       word(s) == {i \in DOMAIN s : s[i] \in WordChars}
                       first(s) == Sorted({i \in word(s) : i - 1 \notin word(s)})
                       last(s) == Sorted({i \in word(s) : i + 1 \notin word(s)})
                       names(c) == [k \in DOMAIN first(inner(c)) |->
                                       SubSeq(inner(c), first(inner(c))[k], last(inner(c))[k])]
                       primary == SelectSeq(last_made[j].indexes, LAMBDA idx : idx.index_type = "PRIMARY")
                   IN  /\ primary = [k \in DOMAIN pk |->
                                        [name |-> <<"P","R","I","M","A","R","Y">>, columns |-> names(pk[k]),
                                         index_type |-> "PRIMARY"]]
                       /\ last_made[j].primary_keys = (IF pk = <<>> THEN <<>> ELSE names(pk[Len(pk)]))
        /\ result.text = 1 =>
               /\ Len(last_made) = 1
               /\ last_made[1].name = <<"t">>
               /\ Len(last_made[1].columns) = 1
               /\ last_made[1].columns[1].name = <<"i","d">>
               /\ last_made[1].columns[1].nullable = FALSE
               /\ last_made[1].columns[1].auto_increment = TRUE
               /\ last_made[1].primary_keys = <<<<"i","d">>>>
        /\ result.text = 2 => last_made[1].primary_keys = <<<<"b">>, <<"a">>>>

\* the statement of t has been read, and gave the Index PRIMARY on id
C13_Witness ==
    /\ result.op = "optimize_file"
    /\ result.text = 1
    /\ last_made[1].primary_keys = <<<<"i","d">>>>
    /\ last_made[1].indexes = <<[name |-> <<"P","R","I","M","A","R","Y">>, columns |-> <<<<"i","d">>>>,
                                 index_type |-> "PRIMARY"]>>

\* C14: a trimmed clause that is not empty goes to the parser of the first rule that
\* matches it, without regard to case: starts with PRIMARY KEY; starts with UNIQUE KEY or
\* UNIQUE INDEX; starts with KEY or INDEX; starts with CONSTRAINT or contains FOREIGN KEY;
\* otherwise a column.  No other parser sees the clause: the clause changes only what the
\* parser of its rule sets.
C14_ClauseClassification ==
    result.op = "optimize_file" =>
        /\ \A s \in DOMAIN FileStatements[result.text] :
               body_match(FileStatements[result.text][s]) # <<>> =>
                   LET clauses == split_definitions(body_match(FileStatements[result.text][s])[1])
                       t0 == MakeTable(<<"t","0">>, <<>>, <<>>, <<>>)
                       at_start(c, kw) == Len(kw) <= Len(strip(c)) /\ SubSeq(upper(strip(c)), 1, Len(kw)) = kw
                       rule(c) ==
                           IF strip(c) = <<>> THEN 0
                           ELSE IF at_start(c, <<"P","R","I","M","A","R","Y"," ","K","E","Y">>) THEN 1
                           ELSE IF at_start(c, <<"U","N","I","Q","U","E"," ","K","E","Y">>)
                                   \/ at_start(c, <<"U","N","I","Q","U","E"," ","I","N","D","E","X">>) THEN 2
                           ELSE IF at_start(c, <<"K","E","Y">>) \/ at_start(c, <<"I","N","D","E","X">>) THEN 3
                           ELSE IF at_start(c, <<"C","O","N","S","T","R","A","I","N","T">>)
                                   \/ contains(upper(strip(c)), <<"F","O","R","E","I","G","N"," ","K","E","Y">>) THEN 4
                           ELSE 5
                       got(c) == parse_definition(c, t0)
                   IN  \A k \in DOMAIN clauses :
                           /\ rule(clauses[k]) = 0 => got(clauses[k]) = t0
                           /\ rule(clauses[k]) = 1 =>
                                  /\ got(clauses[k]) = parse_primary_key(strip(clauses[k]), t0)
                                  /\ got(clauses[k]).columns = <<>> /\ got(clauses[k]).foreign_keys = <<>>
                                  /\ \A i \in DOMAIN got(clauses[k]).indexes :
                                         got(clauses[k]).indexes[i].index_type = "PRIMARY"
                           /\ rule(clauses[k]) = 2 =>
                                  /\ got(clauses[k]) = parse_unique_key(strip(clauses[k]), t0)
                                  /\ got(clauses[k]) = [t0 EXCEPT !.indexes = got(clauses[k]).indexes]
                                  /\ \A i \in DOMAIN got(clauses[k]).indexes :
                                         got(clauses[k]).indexes[i].index_type = "UNIQUE"
                           /\ rule(clauses[k]) = 3 =>
                                  /\ got(clauses[k]) = parse_index(strip(clauses[k]), t0)
                                  /\ got(clauses[k]) = [t0 EXCEPT !.indexes = got(clauses[k]).indexes]
                                  /\ \A i \in DOMAIN got(clauses[k]).indexes :
                                         got(clauses[k]).indexes[i].index_type = "INDEX"
                           /\ rule(clauses[k]) = 4 =>
                                  /\ got(clauses[k]) = parse_foreign_key(strip(clauses[k]), t0)
                                  /\ got(clauses[k]) = [t0 EXCEPT !.foreign_keys = got(clauses[k]).foreign_keys]
                           /\ rule(clauses[k]) = 5 =>
                                  got(clauses[k]) = [t0 EXCEPT !.columns = got(clauses[k]).columns]
        /\ result.text = 4 =>
               /\ [i \in DOMAIN last_made[1].columns |-> last_made[1].columns[i].name] = <<<<"a">>, <<"b">>>>
               /\ [i \in DOMAIN last_made[1].indexes |->
                      <<last_made[1].indexes[i].name, last_made[1].indexes[i].index_type>>]
                    = <<<<<<"P","R","I","M","A","R","Y">>, "PRIMARY">>, <<<<"u","k","_","a">>, "UNIQUE">>,
                        <<<<"i","d","x","_","b">>, "INDEX">>>>
               /\ [i \in DOMAIN last_made[1].foreign_keys |-> last_made[1].foreign_keys[i].name]
                    = <<<<"f","k","_","b">>>>

\* the file with clauses of every kind has been read: its INDEX clause, which holds the
\* text of a foreign key too, gave the index idx_b and no foreign key
C14_Witness ==
    /\ result.op = "optimize_file"
    /\ result.text = 4
    /\ Len(last_made[1].indexes) = 3
    /\ last_made[1].indexes[3].name = <<"i","d","x","_","b">>
    /\ Len(last_made[1].foreign_keys) = 1

\* C15: a CREATE TABLE statement without a name match, or whose first "(" has no balanced
\* closing ")", contributes no table, and the other statements of the text are parsed: the
\* tables made by a call are those of the statements with a name and a balanced "(", in
\* statement order.
C15_MalformedDropped ==
    result.op = "optimize_file" =>
        LET statements == FileStatements[result.text]
            count(s, p, q, ch) == Cardinality({i \in p..q : s[i] = ch})
            first_open(s) == CHOOSE p \in DOMAIN s : s[p] = "(" /\ \A i \in 1..(p - 1) : s[i] # "("
            balanced(s) ==
                /\ \E p \in DOMAIN s : s[p] = "("
                /\ \E q \in DOMAIN s :
                       /\ q > first_open(s)
                       /\ s[q] = ")"
                       /\ count(s, first_open(s), q, "(") = count(s, first_open(s), q, ")")
            named(s) == \E p \in DOMAIN s : table_name_at(s, p).ok
            well_formed(k) == named(statements[k]) /\ balanced(statements[k])
        IN  /\ \A k \in DOMAIN statements :
                   ~well_formed(k) => parse_create_table(statements[k]) = <<>>
            /\ Len(last_made) = Cardinality({k \in DOMAIN statements : well_formed(k)})

\* C16: a statement other than CREATE TABLE that stands on a line of its own between the
\* CREATE TABLE statements is ignored: when the file read is another file with such a
\* statement put in, the tables made are the tables made from that other file.
C16_OtherStatementsIgnored ==
    result.op = "optimize_file" =>
        LET text == Files[result.text]
            other_statement(chunk) ==
                /\ Len(chunk) > 2
                /\ chunk[Len(chunk)] = "\n"
                /\ chunk[Len(chunk) - 1] = ";"
                /\ ~contains(upper(chunk), <<"C","R","E","A","T","E">>)
            put_in(j, p) ==
                /\ Len(Files[j]) < Len(text)
                /\ p + (Len(text) - Len(Files[j])) - 1 <= Len(text)
                /\ (p = 1 \/ text[p - 1] = "\n")
                /\ other_statement(SubSeq(text, p, p + (Len(text) - Len(Files[j])) - 1))
                /\ SubSeq(text, 1, p - 1) \o SubSeq(text, p + (Len(text) - Len(Files[j])), Len(text)) = Files[j]
        IN  \A j \in DOMAIN Files :
                (\E p \in DOMAIN text : put_in(j, p)) => last_made = ParsedFiles[j]

\* C17: when every PRIMARY KEY clause of a statement names only columns that a column
\* clause of the same statement defines, every name in primary_keys of the table parsed
\* from the statement is the name of one of the table's columns.  A column clause is a
\* clause whose first word is a name, not one of the words that open a key clause.
C17_PrimaryKeysAreColumns ==
    (result.op = "optimize_file" /\ Len(last_made) = Len(FileStatements[result.text])) =>
        \A j \in DOMAIN last_made :
            LET clauses == split_definitions(body_match(FileStatements[result.text][j])[1])
                word(s) == {i \in DOMAIN s : s[i] \in WordChars}
                first(s) == Sorted({i \in word(s) : i - 1 \notin word(s)})
                last(s) == Sorted({i \in word(s) : i + 1 \notin word(s)})
                words(s) == [k \in DOMAIN first(s) |-> SubSeq(s, first(s)[k], last(s)[k])]
                opens_key(c) == upper(words(c)[1]) \in
                                   { <<"P","R","I","M","A","R","Y">>, <<"U","N","I","Q","U","E">>, <<"K","E","Y">>,
                                     <<"I","N","D","E","X">>, <<"C","O","N","S","T","R","A","I","N","T">>,
                                     <<"F","O","R","E","I","G","N">> }
                defined == {words(clauses[k])[1] : k \in {i \in DOMAIN clauses :
                                Len(words(clauses[i])) >= 2 /\ ~opens_key(clauses[i])}}
                is_pk(c) == lit_at(upper(strip(c)), 1, <<"P","R","I","M","A","R","Y"," ","K","E","Y">>)
                inner(c) == SubSeq(c, Min({i \in DOMAIN c : c[i] = "("}) + 1,
                                   Min({i \in DOMAIN c : c[i] = ")"}) - 1)
                range(s) == {s[i] : i \in DOMAIN s}
                named == UNION {range(words(inner(clauses[k]))) : k \in {i \in DOMAIN clauses : is_pk(clauses[i])}}
            IN  named \subseteq defined =>
                    \A n \in range(last_made[j].primary_keys) :
                        \E i \in DOMAIN last_made[j].columns : last_made[j].columns[i].name = n

\* C18: the Compact, JSON, Markdown and Layered formatters derive the markers of a column
\* by one rule: each of them gives NN exactly when the column is not nullable and not in
\* primary_keys, and AI exactly when the column is auto_increment, so the four give a
\* column the same markers out of PK, UK, IDX, AI, NN.
C18_FormattersAgreeOnMarkers ==
    result.op = "optimize_file" =>
        \A j \in DOMAIN last_made : \A i \in DOMAIN last_made[j].columns :
            LET table == last_made[j]
                col == table.columns[i]
                markers == { <<"P","K">>, <<"U","K">>, <<"I","D","X">>, <<"A","I">>, <<"N","N">> }
                of(constraints) == {constraints[k] : k \in DOMAIN constraints} \cap markers
                all == << of(Compact_constraints(col, table)), of(JSON_constraints(col, table)),
                          of(Markdown_constraints(col, table)), of(Layered_constraints(col, table)) >>
            IN  \A f \in DOMAIN all :
                    /\ <<"N","N">> \in all[f] <=>
                           (~col.nullable /\ \A k \in DOMAIN table.primary_keys : table.primary_keys[k] # col.name)
                    /\ <<"A","I">> \in all[f] <=> col.auto_increment
                    /\ all[f] = all[1]

\* C19: the key markers follow a chain: PK when the column is in primary_keys, else UK
\* when it is in a UNIQUE index, else IDX when it is in a plain INDEX.  So the constraints
\* of a column hold at most one of PK, UK, IDX in the Compact, JSON, Markdown and Layered
\* formatters, and its Minimal text holds at most one of "*" and "!".
C19_OneKeyMarker ==
    result.op = "optimize_file" =>
        \A j \in DOMAIN last_made : \A i \in DOMAIN last_made[j].columns :
            LET table == last_made[j]
                col == table.columns[i]
                in_pk == \E k \in DOMAIN table.primary_keys : table.primary_keys[k] = col.name
                in_type(t) == \E k \in DOMAIN table.indexes :
                                  /\ table.indexes[k].index_type = t
                                  /\ \E c \in DOMAIN table.indexes[k].columns : table.indexes[k].columns[c] = col.name
                chain == IF in_pk THEN { <<"P","K">> }
                         ELSE IF in_type("UNIQUE") THEN { <<"U","K">> }
                         ELSE IF in_type("INDEX") THEN { <<"I","D","X">> }
                         ELSE {}
                of(constraints) == {constraints[k] : k \in DOMAIN constraints}
                                       \cap { <<"P","K">>, <<"U","K">>, <<"I","D","X">> }
                sigils == {Minimal_column(col, table)[k] : k \in DOMAIN Minimal_column(col, table)} \cap {"*", "!"}
            IN  /\ of(Compact_constraints(col, table)) = chain
                /\ of(JSON_constraints(col, table)) = chain
                /\ of(Markdown_constraints(col, table)) = chain
                /\ of(Layered_constraints(col, table)) = chain
                /\ Cardinality(sigils) <= 1

\* C20: a parsed table has at most one Index of type PRIMARY, whatever the clauses of its
\* statement are, and the columns of that Index are the table's primary_keys.
C20_OnePrimaryIndex ==
    result.op = "optimize_file" =>
        \A j \in DOMAIN last_made :
            LET primary == {i \in DOMAIN last_made[j].indexes : last_made[j].indexes[i].index_type = "PRIMARY"}
            IN  /\ Cardinality(primary) <= 1
                /\ \A i \in primary : last_made[j].indexes[i].columns = last_made[j].primary_keys

\* C21: in every ForeignKey the parser makes, columns and ref_columns have the same
\* length, and neither is empty.
C21_ForeignKeyLengths ==
    result.op = "optimize_file" =>
        \A j \in DOMAIN last_made : \A i \in DOMAIN last_made[j].foreign_keys :
            /\ Len(last_made[j].foreign_keys[i].columns) = Len(last_made[j].foreign_keys[i].ref_columns)
            /\ Len(last_made[j].foreign_keys[i].columns) > 0

\* C22: the name of a unique-index clause is optional: a clause UNIQUE KEY or UNIQUE
\* INDEX, with or without a name before the column list, appends exactly one Index of
\* type UNIQUE whose columns are the names of the list.
C22_UniqueNameOptional ==
    result.op = "optimize_file" =>
        \A s \in DOMAIN FileStatements[result.text] :
            body_match(FileStatements[result.text][s]) # <<>> =>
                LET clauses == split_definitions(body_match(FileStatements[result.text][s])[1])
                    t0 == MakeTable(<<"t","0">>, <<>>, <<>>, <<>>)
                    is_unique(c) == \/ lit_at(upper(strip(c)), 1, <<"U","N","I","Q","U","E"," ","K","E","Y">>)
                                    \/ lit_at(upper(strip(c)), 1, <<"U","N","I","Q","U","E"," ","I","N","D","E","X">>)
                    inner(c) == SubSeq(c, Min({i \in DOMAIN c : c[i] = "("}) + 1,
                                       Min({i \in DOMAIN c : c[i] = ")"}) - 1)
                    word(x) == {i \in DOMAIN x : x[i] \in WordChars}
                    first(x) == Sorted({i \in word(x) : i - 1 \notin word(x)})
                    last(x) == Sorted({i \in word(x) : i + 1 \notin word(x)})
                    names(c) == [k \in DOMAIN first(inner(c)) |->
                                    SubSeq(inner(c), first(inner(c))[k], last(inner(c))[k])]
                    got(c) == parse_definition(c, t0).indexes
                IN  \A k \in DOMAIN clauses :
                        is_unique(clauses[k]) =>
                            /\ Len(got(clauses[k])) = 1
                            /\ got(clauses[k])[1].index_type = "UNIQUE"
                            /\ got(clauses[k])[1].columns = names(clauses[k])

\* C23: when the text read has several CREATE TABLE statements for one table name, the
\* schema holds one entry for the name, and its Table is the one built from the last of
\* these statements alone: nothing of the earlier statements is in it.
C23_LastDefinitionWins ==
    result.op = "optimize_file" =>
        /\ \A j \in DOMAIN last_made :
               LET schema == items(optimizers[result.self].tables)
                   same == {i \in DOMAIN last_made : last_made[i].name = last_made[j].name}
                   latest == CHOOSE i \in same : \A k \in same : k <= i
                   entries == {k \in DOMAIN schema : schema[k].key = last_made[j].name}
               IN  /\ Cardinality(entries) = 1
                   /\ \A k \in entries :
                          /\ schema[k].table = last_made[latest]
                          /\ dicts[optimizers[result.self].tables][k].value
                                 = Len(heap) - Len(last_made) + latest
        /\ Len(last_made) = Len(FileStatements[result.text]) =>
               \A j \in DOMAIN last_made :
                   <<last_made[j]>> = parse_create_table(FileStatements[result.text][j])
        /\ result.text = 15 =>
               \E k \in DOMAIN items(optimizers[result.self].tables) :
                   LET table == items(optimizers[result.self].tables)[k].table
                   IN  /\ table.name = <<"a">>
                       /\ [i \in DOMAIN table.columns |-> table.columns[i].name] = <<<<"y">>>>
                       /\ table.primary_keys = <<>>
                       /\ [i \in DOMAIN table.indexes |-> table.indexes[i].name] = <<<<"k","y">>>>
                       /\ table.foreign_keys = <<>>

\* the file with two statements for a has been read: the schema holds the a of the
\* second statement, and the table b that stands between them
C23_Witness ==
    /\ result.op = "optimize_file"
    /\ result.text = 15
    /\ Len(last_made) = 3
    /\ last_made[1].name = last_made[3].name
    /\ last_made[1] # last_made[3]
    /\ \E k \in DOMAIN items(optimizers[result.self].tables) :
           items(optimizers[result.self].tables)[k].table = last_made[3]

\* C24: the comment of a Table is the text of the option COMMENT='...' that follows the
\* closing parenthesis of the body, also when clauses of the body have a COMMENT of
\* their own; without such an option after the body the Table has no comment.
C24_TableComment ==
    (result.op = "optimize_file" /\ Len(last_made) = Len(FileStatements[result.text])) =>
        \A j \in DOMAIN last_made :
            LET statement == FileStatements[result.text][j]
                closing == CHOOSE p \in DOMAIN statement :
                               statement[p] = ")" /\ \A q \in (p + 1)..Len(statement) : statement[q] # ")"
                options == SubSeq(statement, closing + 1, Len(statement))
            IN  last_made[j].comment = group_or_none(options, table_comment_at)

\* C25: the statements extracted from a text are, in the order of the matches of the
\* CREATE TABLE pattern, the parts of the text from the start of a match through the last
\* ";" before the next match (before the end of the text for the last match); a match
\* without a ";" in that range gives no statement, and so no table, and no error: the
\* only error of the call is that of an unknown format name.
C25_StatementExtraction ==
    result.op = "optimize_file" =>
        LET text == remove_comments(Files[result.text])
            matches == {p \in DOMAIN text : create_table_at(text, p)}
            limit(p) == IF \E m \in matches : m > p THEN Min({m \in matches : m > p}) - 1 ELSE Len(text)
            ended(p) == \E q \in p..limit(p) : text[q] = ";"
            last_semicolon(p) == CHOOSE q \in p..limit(p) :
                                     text[q] = ";" /\ \A r \in (q + 1)..limit(p) : text[r] # ";"
            starts == {p \in matches : ended(p)}
            nth(k) == CHOOSE p \in starts : Cardinality({m \in starts : m < p}) = k - 1
        IN  /\ Len(FileStatements[result.text]) = Cardinality(starts)
            /\ \A k \in DOMAIN FileStatements[result.text] :
                   FileStatements[result.text][k] = SubSeq(text, nth(k), last_semicolon(nth(k)))
            /\ Len(last_made) <= Cardinality(starts)
            /\ (result.error # "none" => result.format_type = <<"x","m","l">>)
            /\ result.text = 17 =>
                   /\ Cardinality(matches) = 3
                   /\ starts = {Min({m \in matches : m > Min(matches)})}
                   /\ [j \in DOMAIN last_made |-> last_made[j].name] = <<<<"b">>>>

\* the file whose first and last statements have no ";" has been read: of three matches
\* one statement, the one of b, is extracted
C25_Witness ==
    /\ result.op = "optimize_file"
    /\ result.text = 17
    /\ Len(FileStatements[17]) = 1
    /\ Len(last_made) = 1
    /\ last_made[1].name = <<"b">>

\* C26: the text a formatter returns is a function of the schema alone: whatever the hash
\* seed of the process is, formatting the schema gives the text returned; and the Minimal
\* formatter lists the tables that reference a table without duplicates, in the order of
\* the schema.
C26_FormatDeterministic ==
    (result.op \in {"optimize_file", "format"} /\ result.error = "none") =>
        /\ \A seed \in {0, 1} :
               format(result.format_type, items(optimizers[result.self].tables), seed).output = result.output
        /\ result.format_type = <<"m","i","n","i","m","a","l">> =>
               \A k \in DOMAIN items(optimizers[result.self].tables) :
                   LET tables == items(optimizers[result.self].tables)
                       referenced_by == Minimal_referenced_by(tables, tables[k].key)
                       listed == set_order(referenced_by, hash_seed)
                   IN  /\ \A i, j \in DOMAIN listed : listed[i] = listed[j] => i = j
                       /\ listed = referenced_by
                       /\ referenced_by # <<>> =>
                              contains(result.output,
                                       <<" ","U+2190"," ">> \o join(<<",">>, referenced_by))

\* C27: optimize_text with a format name that is no formatter's raises the error of the
\* unknown format after the parse result is stored: the schema of the optimizer then has
\* the tables of the text, and get_table_names, get_statistics and a later format on the
\* optimizer show them.
C27_ErrorAfterStore ==
    [][LET names(text) == {ParsedTexts[text][j].name : j \in DOMAIN ParsedTexts[text]}
           schema(self) == items_in(heap', dicts', optimizers'[self].tables)
           raised == result.op = "optimize_text" /\ result.error = "ValueError"
       IN  /\ result'.op = "optimize_text" =>
                  /\ result'.error = "ValueError" <=> result'.format_type = <<"x","m","l">>
                  /\ result'.error = "ValueError" =>
                         /\ contains(result'.output, <<"U","n","k","n","o","w","n"," ","f","o","r","m","a","t"," ","t","y","p","e">>)
                         /\ optimizers'[result'.self].tables = optimizers'[result'.self].parser
                         /\ Len(heap') = Len(heap) + Len(ParsedTexts[result'.text])
                         /\ \A j \in DOMAIN ParsedTexts[result'.text] :
                                \E k \in DOMAIN schema(result'.self) :
                                    /\ schema(result'.self)[k].key = ParsedTexts[result'.text][j].name
                                    /\ schema(result'.self)[k].table.name = ParsedTexts[result'.text][j].name
                                    /\ dicts'[optimizers'[result'.self].tables][k].value > Len(heap)
           /\ (raised /\ result'.self = result.self /\ result'.op = "get_statistics") =>
                  /\ result'.error = "none" \/ names(result.text) = {}
                  /\ result'.stats.total_tables >= Cardinality(names(result.text))
           /\ (raised /\ result'.self = result.self /\ result'.op = "format" /\ result'.error = "none") =>
                  \A name \in names(result.text) : contains(result'.output, name \o <<" ","{">>)
      ]_vars

\* optimize_text with the name xml on the text of a, b and c has raised, and the schema of
\* the optimizer has the three tables
C27_Witness ==
    /\ result.op = "optimize_text"
    /\ result.error = "ValueError"
    /\ result.text = 1
    /\ keys(optimizers[result.self].tables) = <<<<"a">>, <<"b">>, <<"c">>>>

\* C28: the optimizer that filter_tables or exclude_tables returns has a parser of its
\* own: optimize_text on it replaces its schema by exactly the tables of the new text,
\* none of the filtered tables remain, and the schema of no other optimizer changes (that
\* of the optimizer it was derived from included), nor does the dict that held the
\* filtered tables.
C28_DerivedParses ==
    [][(result'.op = "optimize_text" /\ result'.self > 1) =>
          /\ items_in(heap', dicts', optimizers'[result'.self].tables) = fresh_items(ParsedTexts[result'.text])
          /\ optimizers'[result'.self].tables # optimizers[result'.self].tables =>
                 dicts'[optimizers[result'.self].tables] = dicts[optimizers[result'.self].tables]
          /\ \A o \in DOMAIN optimizers :
                 o # result'.self =>
                     /\ optimizers'[o] = optimizers[o]
                     /\ items_in(heap', dicts', optimizers'[o].tables) = items(optimizers[o].tables)
      ]_vars

\* ------------------------------------------------------------------------
\* Incoming references in the schemas that filter_tables and exclude_tables derive
\* ------------------------------------------------------------------------

\* the calls of a run that reads the files with foreign keys, derives optimizers from
\* the schema by filter_tables and exclude_tables, and formats as json and as minimal
NextReferences ==
    \/ \E file \in {11, 19}, format_type \in {<<"j","s","o","n">>, <<"m","i","n","i","m","a","l">>} :
           OptimizeFile(1, file, format_type)
    \/ \E self \in DOMAIN optimizers, table_names \in {<<<<"e">>, <<"a","b">>>>, <<<<"z","w">>>>} :
           FilterTables(self, table_names)
    \/ \E self \in DOMAIN optimizers, table_names \in {<<<<"e">>, <<"a","b">>>>, <<<<"z","w">>>>} :
           ExcludeTables(self, table_names)
    \/ \E self \in DOMAIN optimizers, format_type \in {<<"j","s","o","n">>, <<"m","i","n","i","m","a","l">>} :
           Format(self, format_type)

SpecReferences == Init /\ [][NextReferences]_vars

\* C29: JSON and Minimal derive the incoming references of a table T alike, in the schema
\* of every optimizer, derived ones too: the table names before the "." of the entries of
\* T's referenced_by in JSON are the table names Minimal lists after T's arrow; they are
\* the other tables of the schema formatted that have a foreign key to T, never T itself,
\* and the text returned shows them.
C29_IncomingReferencesAgree ==
    \A o \in DOMAIN optimizers :
        LET tables == items(optimizers[o].tables)
            prefix(entry) == SubSeq(entry, 1, Min({i \in DOMAIN entry : entry[i] = "."}) - 1)
            json(T) == {prefix(JSON_referenced_by(tables, T)[i]) : i \in DOMAIN JSON_referenced_by(tables, T)}
            minimal(T) == {Minimal_referenced_by(tables, T)[i] : i \in DOMAIN Minimal_referenced_by(tables, T)}
            referencing(T) == {tables[k].key : k \in {i \in DOMAIN tables :
                                   /\ tables[i].key # T
                                   /\ \E f \in DOMAIN tables[i].table.foreign_keys :
                                          tables[i].table.foreign_keys[f].ref_table = T}}
        IN  \A k \in DOMAIN tables :
                /\ json(tables[k].key) = minimal(tables[k].key)
                /\ json(tables[k].key) = referencing(tables[k].key)
                /\ tables[k].key \notin json(tables[k].key)
                /\ json(tables[k].key) \subseteq {tables[i].key : i \in DOMAIN tables}
                /\ (result.op \in {"format", "optimize_file"} /\ result.self = o /\ result.error = "none") =>
                       /\ result.format_type = <<"j","s","o","n">> =>
                              \A i \in DOMAIN JSON_referenced_by(tables, tables[k].key) :
                                  contains(result.output,
                                           <<"\"">> \o JSON_referenced_by(tables, tables[k].key)[i] \o <<"\"">>)
                       /\ (result.format_type = <<"m","i","n","i","m","a","l">> /\ minimal(tables[k].key) # {}) =>
                              contains(result.output,
                                       <<" ","U+2190"," ">>
                                       \o join(<<",">>, set_order(Minimal_referenced_by(tables, tables[k].key), hash_seed)))

\* a derived optimizer whose schema has e, which references itself, and ab, which
\* references e twice, but not zw: JSON has two entries of ab for e, Minimal lists ab
C29_Witness ==
    \E o \in DOMAIN optimizers :
        /\ o > 1
        /\ result.op = "format"
        /\ result.self = o
        /\ keys(optimizers[o].tables) = <<<<"e">>, <<"a","b">>>>
        /\ JSON_referenced_by(items(optimizers[o].tables), <<"e">>)
             = <<<<"a","b",".","e","_","i","d">>, <<"a","b",".","o","_","i","d">>>>
        /\ Minimal_referenced_by(items(optimizers[o].tables), <<"e">>) = <<<<"a","b">>>>

\* C30: a column clause whose name starts with KEY or INDEX, in any case, is taken for a
\* plain-index clause and adds neither a Column nor an Index to the table.
C30_KeyNamedColumnDropped ==
    result.op = "optimize_file" =>
        \A s \in DOMAIN FileStatements[result.text] :
            body_match(FileStatements[result.text][s]) # <<>> =>
                LET clauses == split_definitions(body_match(FileStatements[result.text][s])[1])
                    t0 == MakeTable(<<"t","0">>, <<>>, <<>>, <<>>)
                    word(x) == {i \in DOMAIN x : x[i] \in WordChars}
                    first_word(x) == SubSeq(x, 1, Min({i \in 1..(Len(x) + 1) : i \notin word(x)}) - 1)
                    starts(c, kw) == Len(kw) <= Len(strip(c)) /\ SubSeq(upper(strip(c)), 1, Len(kw)) = kw
                    \* the first word is a column name: longer than the key word it starts with
                    key_named(c) ==
                        \/ starts(c, <<"K","E","Y">>) /\ Len(first_word(strip(c))) > 3
                        \/ starts(c, <<"I","N","D","E","X">>) /\ Len(first_word(strip(c))) > 5
                IN  \A k \in DOMAIN clauses :
                        key_named(clauses[k]) =>
                            /\ parse_definition(clauses[k], t0) = parse_index(strip(clauses[k]), t0)
                            /\ parse_definition(clauses[k], t0) = t0

====
